---- MODULE Spec2Model ----
(***************************************************************************)
(* Feedback fusion subsystem of Jingwu12/feedback_system: the Relation     *)
(* model, the relation graph and its propagation, the graph, attention and *)
(* reinforcement-learning fusion strategies and the hybrid engine that     *)
(* selects among them.                                                     *)
(*                                                                         *)
(* Numbers.  The code computes in floating point; the model computes the   *)
(* same formulas exactly.  A strength, a weight and a fused reliability    *)
(* are rationals [n |-> numerator, d |-> denominator].  A propagated       *)
(* reliability or importance is an integer count of 1/Unit, where Unit is  *)
(* chosen so that the three propagation rounds stay exact on the input     *)
(* grids (reliabilities and strengths in halves).  Timestamps and uuids    *)
(* are not modelled: ids are small integers, and the id of a fused item is *)
(* FusedId.                                                                *)
(***************************************************************************)
EXTENDS Integers, Sequences, FiniteSets, TLC

VARIABLES
    strategy_history,   \* HybridFusionEngine.strategy_history
    relation_graph,     \* GraphBasedFusion.relation_graph
    q_table,            \* RLBasedFusion.q_table
    history,            \* RLBasedFusion.history
    call,               \* the last invocation: operation and arguments
    ret,                \* what the last invocation returned or raised
    fuse_calls,         \* number of HybridFusionEngine.fuse calls on non-empty lists
    strategy_calls      \* number of strategy fuse calls on non-empty lists, direct or not

vars == <<strategy_history, relation_graph, q_table, history, call, ret, fuse_calls,
          strategy_calls>>

engine == <<strategy_history, relation_graph, q_table, history, fuse_calls, strategy_calls>>

----------------------------------------------------------------------------
(* Bounds of the model *)

MaxItems == 3           \* longest list handed to select_strategy or to a fuse
MaxStrength == 6        \* strengths passed to RelationModel range over -MaxStrength..MaxStrength quarters
MaxRelations == 2       \* relations carried by, or detected between, the items of one graph fuse
MaxAttention == 2       \* largest entry of the leading column of the attention output
MaxCalls == 2           \* fuse calls on non-empty lists made on one engine and its strategies
MaxRounds == 4          \* rounds of propagation tried on a graph without relations
MaxRLCalls == 3         \* fuse calls on non-empty lists made on one RL strategy on its own
MaxLog == 3             \* fuse calls logged before a recommendation is asked for

(* Small helpers *)

Min(a, b) == IF a < b THEN a ELSE b
Max(a, b) == IF a > b THEN a ELSE b
Abs(a) == IF a < 0 THEN 0 - a ELSE a
Range(s) == {s[i] : i \in 1..Len(s)}

(* f, tabulated: a function written with |-> is otherwise computed anew at *)
(* every application                                                       *)
Tabulated(f) == f @@ <<>>

RECURSIVE SumSeq(_)
SumSeq(s) == IF Len(s) = 0 THEN 0 ELSE s[1] + SumSeq(Tail(s))

Rat(n, d) == [n |-> n, d |-> d]
Zero == Rat(0, 1)
One == Rat(1, 1)
NaN == Rat(0, 0)        \* the float produced by 0/0 in numpy

(* a <= b for rationals with positive denominators *)
RatLeq(a, b) == a.n * b.d <= b.n * a.d
RatEq(a, b) == a.n * b.d = b.n * a.d

----------------------------------------------------------------------------
(* models/relation_model.py *)

RelationType == {"support", "oppose", "complement", "refine", "temporal", "causal"}

(* A constructor that forgets the upper clamp *)
ClampStrengthNoCeiling(strength) ==
    IF strength.d = 0 THEN One
    ELSE IF strength.n < 0 THEN Zero
    ELSE strength

(* max(0.0, min(1.0, strength)); Python's min(1.0, nan) is 1.0 *)
ClampStrength(strength) ==
    IF strength.d = 0 THEN One
    ELSE IF strength.n > strength.d THEN One
    ELSE IF strength.n < 0 THEN Zero
    ELSE strength

RelationModel(source_id, target_id, relation_type, strength) ==
    [source_id |-> source_id,
     target_id |-> target_id,
     relation_type |-> relation_type,
     strength |-> ClampStrength(strength),
     relation_id |-> <<source_id, target_id, relation_type>>]

----------------------------------------------------------------------------
(* models/metadata_model.py, models/feedback_model.py *)

SourceType == {"human.doctor", "human.patient", "system.imaging", "knowledge.literature",
               "self.assessment"}
FeedbackType == {"diagnostic", "therapeutic", "prognostic", "textual", "structured"}

(* A FeedbackModel with its MetadataModel flattened into it.  reliability  *)
(* counts halves (0, 1, 2 for 0.0, 0.5, 1.0) on an input item; age is the  *)
(* number of days since metadata.timestamp; text tells a TextContent from  *)
(* a StructuredContent.                                                    *)
FeedbackModel(feedback_id, source, feedback_type, reliability, age, tags, text, relations) ==
    [feedback_id |-> feedback_id,
     source |-> source,
     feedback_type |-> feedback_type,
     reliability |-> reliability,
     age |-> age,
     tags |-> tags,
     text |-> text,
     relations |-> relations]

----------------------------------------------------------------------------
(* core/fusion/hybrid_fusion.py: strategy selection *)

NoTask == "None"
TaskTypes == {NoTask, "long_term_optimization", "sequential_decision", "diagnostic",
              "therapeutic", "information_retrieval", "question_answering", "other"}

Strategies == {"graph", "attention", "rl"}

has_relations(feedbacks) == \E i \in 1..Len(feedbacks) : Len(feedbacks[i].relations) > 0
sources(feedbacks) == {feedbacks[i].source : i \in 1..Len(feedbacks)}
types(feedbacks) == {feedbacks[i].feedback_type : i \in 1..Len(feedbacks)}

(* A cascade that looks at the task type before the source diversity *)
select_strategy_task_first(feedbacks, task_type) ==
    IF Len(feedbacks) <= 2 THEN "attention"
    ELSE IF has_relations(feedbacks) THEN "graph"
    ELSE IF task_type = "long_term_optimization" \/ task_type = "sequential_decision" THEN "rl"
    ELSE IF Cardinality(sources(feedbacks)) >= 3 THEN "graph"
    ELSE IF task_type = "diagnostic" \/ task_type = "therapeutic" THEN "graph"
    ELSE IF task_type = "information_retrieval" \/ task_type = "question_answering" THEN "attention"
    ELSE IF Cardinality(types(feedbacks)) >= 3 THEN "graph"
    ELSE "attention"

select_strategy(feedbacks, task_type) ==
    IF Len(feedbacks) <= 2 THEN "attention"
    ELSE IF has_relations(feedbacks) THEN "graph"
    ELSE IF Cardinality(sources(feedbacks)) >= 3 THEN "graph"
    ELSE IF task_type = "long_term_optimization" \/ task_type = "sequential_decision" THEN "rl"
    ELSE IF task_type = "diagnostic" \/ task_type = "therapeutic" THEN "graph"
    ELSE IF task_type = "information_retrieval" \/ task_type = "question_answering" THEN "attention"
    ELSE IF Cardinality(types(feedbacks)) >= 3 THEN "graph"
    ELSE "attention"

----------------------------------------------------------------------------
(* models/relation_model.py: RelationGraph *)

EmptyGraph == [relations |-> <<>>, feedback_relations |-> <<>>]

Put(f, k, v) == (k :> v) @@ f
Get(f, k, default) == IF k \in DOMAIN f THEN f[k] ELSE default

(* self.relations[relation.relation_id] = relation, then the id is         *)
(* appended to the index list of the source and to that of the target      *)
add_relation(g, relation) ==
    LET rid == relation.relation_id
        idx1 == Put(g.feedback_relations, relation.source_id,
                    Append(Get(g.feedback_relations, relation.source_id, <<>>), rid))
        idx2 == Put(idx1, relation.target_id,
                    Append(Get(idx1, relation.target_id, <<>>), rid))
    IN  [relations |-> Put(g.relations, rid, relation), feedback_relations |-> idx2]

get_relations_by_feedback(g, feedback_id) ==
    IF feedback_id \notin DOMAIN g.feedback_relations THEN <<>>
    ELSE Tabulated([i \in 1..Len(g.feedback_relations[feedback_id]) |->
                        g.relations[g.feedback_relations[feedback_id][i]]])

----------------------------------------------------------------------------
(* core/fusion/graph_fusion.py *)

relation_threshold == Rat(1, 2)
max_iterations == 3

(* 1.0 as a propagated reliability or importance: halves, and three rounds *)
(* of products with a strength in halves and the factor 0.1                *)
Unit == 2 * 20 * 20 * 20

RECURSIVE AddRelations(_, _)
AddRelations(g, rels) ==
    IF Len(rels) = 0 THEN g ELSE AddRelations(add_relation(g, rels[1]), Tail(rels))

RECURSIVE AddExisting(_, _)
AddExisting(g, feedbacks) ==
    IF Len(feedbacks) = 0 THEN g
    ELSE AddExisting(AddRelations(g, feedbacks[1].relations), Tail(feedbacks))

(* The pairs (i, j), i < j, in the order of the two nested loops *)
RECURSIVE PairsFrom(_, _, _)
PairsFrom(i, j, n) ==
    IF i >= n THEN <<>>
    ELSE IF j > n THEN PairsFrom(i + 1, i + 2, n)
    ELSE <<(<<i, j>>)>> \o PairsFrom(i, j + 1, n)

DetectedTypes == <<"support", "oppose", "complement">>

(* One pair of the detection loop.  detected[<<i, j, type>>] is the score  *)
(* that _detect_support_relation, _detect_oppose_relation or               *)
(* _detect_complement_relation computes for the pair from the contents.    *)
AddDetectedPair(g, feedbacks, detected, pr) ==
    LET Step(gr, ty) ==
            LET strength == detected[<<pr[1], pr[2], ty>>]
            IN  IF ~RatLeq(strength, relation_threshold)
                THEN add_relation(gr, RelationModel(feedbacks[pr[1]].feedback_id,
                                                    feedbacks[pr[2]].feedback_id, ty, strength))
                ELSE gr
    IN  Step(Step(Step(g, DetectedTypes[1]), DetectedTypes[2]), DetectedTypes[3])

RECURSIVE AddDetected(_, _, _, _)
AddDetected(g, feedbacks, detected, prs) ==
    IF Len(prs) = 0 THEN g
    ELSE AddDetected(AddDetectedPair(g, feedbacks, detected, prs[1]), feedbacks, detected, Tail(prs))

build_relation_graph(feedbacks, detected) ==
    AddDetected(AddExisting(EmptyGraph, feedbacks), feedbacks, detected,
                PairsFrom(1, 2, Len(feedbacks)))

(* node_states after initialisation; a later item with the same id         *)
(* overwrites an earlier one as in the dict.  content_vector is carried by *)
(* the code but read by nothing.                                           *)
InitialStates(feedbacks) ==
    Tabulated([id \in {feedbacks[i].feedback_id : i \in 1..Len(feedbacks)} |->
        LET last == CHOOSE i \in 1..Len(feedbacks) :
                        /\ feedbacks[i].feedback_id = id
                        /\ \A j \in (i + 1)..Len(feedbacks) : feedbacks[j].feedback_id # id
        IN  [reliability |-> feedbacks[last].reliability * (Unit \div 2), importance |-> Unit]])

(* an OPPOSE update that has no floor and lowers the importance as well *)
UpdateStateOpposeUnbounded(new_state, node_states, feedback_id, relation) ==
    LET other_id == IF relation.source_id = feedback_id THEN relation.target_id
                    ELSE relation.source_id
        s == relation.strength
    IN  IF other_id \notin DOMAIN node_states THEN new_state
        ELSE LET other_state == node_states[other_id]
             IN  IF relation.relation_type = "support" THEN
                     [reliability |-> Min(Unit, new_state.reliability
                                          + (s.n * other_state.reliability) \div (s.d * 10)),
                      importance |-> Min(2 * Unit, new_state.importance
                                          + (s.n * other_state.importance) \div (s.d * 10))]
                 ELSE IF relation.relation_type = "oppose" THEN
                     [reliability |-> new_state.reliability
                                      - (s.n * other_state.reliability) \div (s.d * 10),
                      importance |-> new_state.importance
                                      - (s.n * other_state.importance) \div (s.d * 10)]
                 ELSE IF relation.relation_type = "complement" THEN
                     [new_state EXCEPT !.importance =
                          Min(2 * Unit, new_state.importance + (s.n * Unit) \div (s.d * 20))]
                 ELSE new_state

(* The update one relation makes to new_state, read from the states of the *)
(* previous round                                                          *)
UpdateState(new_state, node_states, feedback_id, relation) ==
    LET other_id == IF relation.source_id = feedback_id THEN relation.target_id
                    ELSE relation.source_id
        s == relation.strength
    IN  IF other_id \notin DOMAIN node_states THEN new_state
        ELSE LET other_state == node_states[other_id]
             IN  IF relation.relation_type = "support" THEN
                     [reliability |-> Min(Unit, new_state.reliability
                                          + (s.n * other_state.reliability) \div (s.d * 10)),
                      importance |-> Min(2 * Unit, new_state.importance
                                          + (s.n * other_state.importance) \div (s.d * 10))]
                 ELSE IF relation.relation_type = "oppose" THEN
                     [new_state EXCEPT !.reliability =
                          Max(0, new_state.reliability
                                 - (s.n * other_state.reliability) \div (s.d * 10))]
                 ELSE IF relation.relation_type = "complement" THEN
                     [new_state EXCEPT !.importance =
                          Min(2 * Unit, new_state.importance + (s.n * Unit) \div (s.d * 20))]
                 ELSE new_state

RECURSIVE ApplyRelations(_, _, _, _)
ApplyRelations(new_state, node_states, feedback_id, relations) ==
    IF Len(relations) = 0 THEN new_state
    ELSE ApplyRelations(UpdateState(new_state, node_states, feedback_id, relations[1]),
                        node_states, feedback_id, Tail(relations))

(* a round that raises every importance, related or not *)
PropagationRoundRaising(g, node_states) ==
    Tabulated([id \in DOMAIN node_states |->
        LET new_state == ApplyRelations(node_states[id], node_states, id,
                                        get_relations_by_feedback(g, id))
        IN  [new_state EXCEPT !.importance = Min(2 * Unit, @ + Unit \div 20)]])

PropagationRound(g, node_states) ==
    Tabulated([id \in DOMAIN node_states |->
        ApplyRelations(node_states[id], node_states, id, get_relations_by_feedback(g, id))])

(* a round that updates node_states in place: an item visited later reads  *)
(* the states the round has already written                                *)
RECURSIVE RoundInPlace(_, _, _, _)
RoundInPlace(g, node_states, new_states, order) ==
    IF Len(order) = 0 THEN new_states
    ELSE LET feedback_id == order[1]
             current == new_states @@ node_states
             new_state == ApplyRelations(current[feedback_id], current, feedback_id,
                                         get_relations_by_feedback(g, feedback_id))
         IN  RoundInPlace(g, node_states, Put(new_states, feedback_id, new_state), Tail(order))

(* One round as the loop over node_states.items() runs it, the items being *)
(* visited in the given order: new_state starts as a copy of the item's    *)
(* state, is updated from node_states and is stored in new_states          *)
RECURSIVE RoundInOrder(_, _, _, _)
RoundInOrder(g, node_states, new_states, order) ==
    IF Len(order) = 0 THEN new_states
    ELSE LET feedback_id == order[1]
             new_state == ApplyRelations(node_states[feedback_id], node_states, feedback_id,
                                         get_relations_by_feedback(g, feedback_id))
         IN  RoundInOrder(g, node_states, Put(new_states, feedback_id, new_state), Tail(order))

RECURSIVE Rounds(_, _, _)
Rounds(g, node_states, k) ==
    IF k = 0 THEN node_states ELSE Rounds(g, PropagationRound(g, node_states), k - 1)

propagate_information(g, feedbacks) == Rounds(g, InitialStates(feedbacks), max_iterations)

(* Products that do not fit a machine word are kept as hi * Base + lo *)
Base == 2 ^ 15
Big(x) == [hi |-> x \div Base, lo |-> x % Base]
BigTimes(a, b) ==
    LET l == (a % Base) * b
    IN  [hi |-> (a \div Base) * b + l \div Base, lo |-> l % Base]
BigPlus(x, y) ==
    [hi |-> x.hi + y.hi + (x.lo + y.lo) \div Base, lo |-> (x.lo + y.lo) % Base]
BigLeq(x, y) == x.hi < y.hi \/ (x.hi = y.hi /\ x.lo <= y.lo)

RECURSIVE SumOver(_, _)
SumOver(f, S) ==
    IF S = {} THEN 0
    ELSE LET x == CHOOSE y \in S : TRUE IN f[x] + SumOver(f, S \ {x})

(* GraphWeights dividing by the total even when it is 0 *)
GraphWeightsNoFallback(feedbacks, node_states) ==
    LET raw == Tabulated([id \in DOMAIN node_states |->
                   node_states[id].reliability * node_states[id].importance])
        total_weight == SumOver(raw, DOMAIN raw)
    IN  Tabulated([id \in DOMAIN raw |-> Rat(raw[id], total_weight)])

(* weight = reliability * importance, normalised; uniform when the total   *)
(* is 0                                                                    *)
GraphWeights(feedbacks, node_states) ==
    LET raw == Tabulated([id \in DOMAIN node_states |->
                   node_states[id].reliability * node_states[id].importance])
        total_weight == SumOver(raw, DOMAIN raw)
    IN  IF total_weight = 0
        THEN Tabulated([id \in DOMAIN raw |-> Rat(1, Len(feedbacks))])
        ELSE Tabulated([id \in DOMAIN raw |-> Rat(raw[id], total_weight)])

(* max(weights, key=weights.get): the first of the heaviest, in the order  *)
(* the ids entered node_states.  All weights share one denominator.        *)
BestIndex(feedbacks, weights) ==
    CHOOSE i \in 1..Len(feedbacks) :
        /\ \A j \in 1..Len(feedbacks) :
              weights[feedbacks[j].feedback_id].n <= weights[feedbacks[i].feedback_id].n
        /\ \A j \in 1..(i - 1) :
              weights[feedbacks[j].feedback_id].n < weights[feedbacks[i].feedback_id].n

(* sum(state['reliability'] * weights[fid]), as the quotient of two Bigs   *)
RECURSIVE WeightedReliability(_, _, _)
WeightedReliability(node_states, weights, S) ==
    IF S = {} THEN Big(0)
    ELSE LET x == CHOOSE y \in S : TRUE
         IN  BigPlus(BigTimes(weights[x].n, node_states[x].reliability),
                     WeightedReliability(node_states, weights, S \ {x}))

(* GraphReliability adding the propagated reliabilities without weights *)
GraphReliabilityUnweighted(node_states, weights) ==
    [num |-> Big(SumOver([id \in DOMAIN node_states |-> node_states[id].reliability],
                         DOMAIN node_states)),
     den |-> Big(Unit)]

GraphReliability(node_states, weights) ==
    LET any == CHOOSE x \in DOMAIN weights : TRUE
    IN  [num |-> WeightedReliability(node_states, weights, DOMAIN node_states),
         den |-> BigTimes(weights[any].d, Unit)]

(* The kind of content _fuse_content returns: a TextContent when the text  *)
(* items are at least as many as the structured ones and one of them       *)
(* weighs more than 0.1, the best item's content when none does, a         *)
(* StructuredContent otherwise                                             *)
FusedIsText(feedbacks, weight_of, best) ==
    LET text_feedbacks == {i \in 1..Len(feedbacks) : feedbacks[i].text}
        structured_feedbacks == {i \in 1..Len(feedbacks) : ~feedbacks[i].text}
    IN  IF Cardinality(text_feedbacks) >= Cardinality(structured_feedbacks)
        THEN IF \E i \in text_feedbacks : weight_of[i].n > weight_of[i].d \div 10
             THEN TRUE ELSE feedbacks[best].text
        ELSE FALSE

FusedId == 99

(* GraphBasedFusion.fuse on a non-empty list: the new relation graph and   *)
(* the fused item                                                          *)
GraphFuse(feedbacks, detected) ==
    LET g == build_relation_graph(feedbacks, detected)
        node_states == propagate_information(g, feedbacks)
        weights == GraphWeights(feedbacks, node_states)
        best == BestIndex(feedbacks, weights)
        weight_of == Tabulated([i \in 1..Len(feedbacks) |-> weights[feedbacks[i].feedback_id]])
    IN  [graph |-> g,
         item |-> FeedbackModel(
             FusedId, "fusion.graph_based", feedbacks[best].feedback_type,
             GraphReliability(node_states, weights), 0,
             <<"fused", "graph_fusion">> \o feedbacks[best].tags,
             FusedIsText(feedbacks, weight_of, best),
             [i \in 1..Len(feedbacks) |->
                 RelationModel(FusedId, feedbacks[i].feedback_id, "refine", weight_of[i])])]

----------------------------------------------------------------------------
(* core/fusion/attention_fusion.py: the fuse that is in effect (the second *)
(* definition of the class).  column[i] is abs(attention_output[i, 0]), an *)
(* outcome of the random projection matrices and of the dropout mask.      *)

AttentionWeights(column) ==
    LET total == SumSeq(column)
    IN  Tabulated([i \in 1..Len(column) |-> Rat(column[i], total)])

(* np.argmax: the first of the largest; the first entry when all are nan *)
ArgMax(column) ==
    CHOOSE i \in 1..Len(column) :
        /\ \A j \in 1..Len(column) : column[j] <= column[i]
        /\ \A j \in 1..(i - 1) : column[j] < column[i]

(* np.sum([f.get_reliability() * w ...]) with reliabilities in halves *)
AttentionReliability(feedbacks, column) ==
    [num |-> Big(SumSeq([i \in 1..Len(column) |-> feedbacks[i].reliability * column[i]])),
     den |-> Big(2 * SumSeq(column))]

AttentionFuse(feedbacks, column) ==
    LET weights == AttentionWeights(column)
        best_idx == ArgMax(column)
    IN  FeedbackModel(
            FusedId, "fusion.attention_based", feedbacks[best_idx].feedback_type,
            AttentionReliability(feedbacks, column), 0,
            <<"fused", "attention_fusion">> \o feedbacks[best_idx].tags,
            FusedIsText(feedbacks, weights, best_idx),
            [i \in 1..Len(feedbacks) |->
                RelationModel(FusedId, feedbacks[i].feedback_id, "refine", weights[i])])

----------------------------------------------------------------------------
(* core/fusion/rl_fusion.py: features and actions *)

(* max(0, 1 - time_diff / 30), in thirtieths *)
extract_recency(feedback) == Max(0, 30 - feedback.age)

(* in hundredths *)
extract_source_type(feedback) ==
    IF feedback.source \in SourceType THEN
        IF feedback.source = "human.doctor" THEN 90
        ELSE IF feedback.source = "human.patient" THEN 70
        ELSE IF feedback.source = "system.imaging" THEN 80
        ELSE IF feedback.source = "knowledge.literature" THEN 85
        ELSE 50
    ELSE 50

extract_feedback_type(feedback) ==
    IF feedback.feedback_type \in FeedbackType THEN
        IF feedback.feedback_type = "diagnostic" THEN 85
        ELSE IF feedback.feedback_type = "therapeutic" THEN 90
        ELSE IF feedback.feedback_type = "prognostic" THEN 80
        ELSE 50
    ELSE 50

ActionNames == <<"uniform", "reliability", "recency", "source", "feedback_type">>

Normalize(raw) ==
    LET sum_weights == SumSeq(raw)
    IN  IF sum_weights > 0 THEN [i \in 1..Len(raw) |-> Rat(raw[i], sum_weights)]
        ELSE [i \in 1..Len(raw) |-> Rat(1, Len(raw))]

(* The five named weight vectors.  The uniform one is [1.0/n] * n, whose   *)
(* sum is 1.                                                               *)
get_possible_actions(feedbacks) ==
    LET n == Len(feedbacks)
        raw == <<[i \in 1..n |-> 1],
                 [i \in 1..n |-> feedbacks[i].reliability],
                 [i \in 1..n |-> extract_recency(feedbacks[i])],
                 [i \in 1..n |-> extract_source_type(feedbacks[i])],
                 [i \in 1..n |-> extract_feedback_type(feedbacks[i])]>>
    IN  [a \in 1..5 |-> [name |-> ActionNames[a], weights |-> Normalize(raw[a])]]

(* rl_fusion.py: state, reward, Q-table.  A Q-value or a reward is an      *)
(* integer count of QUnit-ths: with learning rate 1/100 and discount 9/10  *)
(* this is exact for a reward that is a multiple of 1/100 through three    *)
(* dependent updates.                                                      *)

learning_rate == Rat(1, 100)
discount_factor == Rat(9, 10)
history_window == 10
QUnit == 1000 * 1000 * 1000

RECURSIVE GCD(_, _)
GCD(a, b) == IF b = 0 THEN a ELSE GCD(b, a % b)

Reduced(r) ==
    LET g == GCD(Abs(r.n), r.d) IN IF g = 0 THEN r ELSE Rat(r.n \div g, r.d \div g)
RatPlus(a, b) == Reduced(Rat(a.n * b.d + b.n * a.d, a.d * b.d))
RatTimes(a, b) == Reduced(Rat(a.n * b.n, a.d * b.d))
RatAbsDiff(a, b) == Reduced(Rat(Abs(a.n * b.d - b.n * a.d), a.d * b.d))
RatNeg(a) == Rat(0 - a.n, a.d)

RECURSIVE RatSum(_)
RatSum(s) == IF Len(s) = 0 THEN Zero ELSE RatPlus(s[1], RatSum(Tail(s)))

(* how many entries of seq equal each value of keep that occurs in it *)
Counts(seq, keep) ==
    Tabulated([v \in Range(seq) \cap keep |-> Cardinality({i \in 1..Len(seq) : seq[i] = v})])

(* The state string, as the record of its four parts.  The code keeps the  *)
(* three alphabetically first kinds and sources; the lists of this model   *)
(* never hold more than three of either.                                   *)
extract_state(feedbacks) ==
    LET n == Len(feedbacks)
        relation_count == SumSeq([i \in 1..n |-> Len(feedbacks[i].relations)])
    IN  [types |-> Counts([i \in 1..n |-> feedbacks[i].feedback_type], FeedbackType),
         sources |-> Counts([i \in 1..n |-> feedbacks[i].source], SourceType),
         density |-> IF n > 1 THEN (10 * relation_count) \div (n * (n - 1)) ELSE 0,
         count |-> n]

(* the contribution to the reward of the relations feedback i holds to     *)
(* feedback j: minus |w_i - w_j| * strength for a SUPPORT, plus for an     *)
(* OPPOSE                                                                  *)
RelationReward(feedbacks, weights, i, j) ==
    LET rels == feedbacks[i].relations
        weight_diff == RatAbsDiff(weights[i], weights[j])
        Term(x) ==
            IF rels[x].target_id # feedbacks[j].feedback_id THEN Zero
            ELSE IF rels[x].relation_type = "support"
                 THEN RatNeg(RatTimes(weight_diff, rels[x].strength))
            ELSE IF rels[x].relation_type = "oppose"
                 THEN RatTimes(weight_diff, rels[x].strength)
            ELSE Zero
    IN  RatSum([x \in 1..Len(rels) |-> Term(x)])

calculate_reward(feedbacks, weights) ==
    LET n == Len(feedbacks)
        pairs == PairsFrom(1, 2, n)
    IN  RatPlus(RatSum([i \in 1..n |-> RatTimes(weights[i], Rat(feedbacks[i].reliability, 2))]),
                RatSum([p \in 1..Len(pairs) |->
                           RatPlus(RelationReward(feedbacks, weights, pairs[p][1], pairs[p][2]),
                                   RelationReward(feedbacks, weights, pairs[p][2], pairs[p][1]))]))

RewardUnits(r) == r.n * (QUnit \div r.d)

(* q_table[state] is a dict in insertion order: a sequence of entries *)
QEntry(action, q) == [action |-> action, q |-> q]
QActions(entries) == {entries[i].action : i \in 1..Len(entries)}
QIndex(entries, action) == CHOOSE i \in 1..Len(entries) : entries[i].action = action

(* the last entry of greatest Q-value *)
QMaxLast(entries) ==
    CHOOSE i \in 1..Len(entries) :
        /\ \A j \in 1..Len(entries) : entries[j].q <= entries[i].q
        /\ \A j \in (i + 1)..Len(entries) : entries[j].q < entries[i].q

QMax(entries) ==
    CHOOSE i \in 1..Len(entries) :
        /\ \A j \in 1..Len(entries) : entries[j].q <= entries[i].q
        /\ \A j \in 1..(i - 1) : entries[j].q < entries[i].q

(* _select_action taking the last of the actions of greatest Q-value *)
select_action_last_max(q, state, possible_actions) ==
    LET q1 == IF state \in DOMAIN q THEN q
              ELSE Put(q, state, [a \in 1..Len(possible_actions) |->
                                     QEntry(possible_actions[a].name, 0)])
        last == CHOOSE i \in 1..Len(q1[state]) :
                    /\ \A j \in 1..Len(q1[state]) : q1[state][j].q <= q1[state][i].q
                    /\ \A j \in (i + 1)..Len(q1[state]) : q1[state][j].q < q1[state][i].q
    IN  [q_table |-> q1,
         action |-> CHOOSE a \in 1..Len(possible_actions) :
                        possible_actions[a].name = q1[state][last].action]

(* _select_action without exploration: the table after the state's entry   *)
(* is created, and the index of the action returned                        *)
select_action(q, state, possible_actions) ==
    LET q1 == IF state \in DOMAIN q THEN q
              ELSE Put(q, state, [a \in 1..Len(possible_actions) |->
                                     QEntry(possible_actions[a].name, 0)])
        best_action_name == q1[state][QMax(q1[state])].action
    IN  [q_table |-> q1,
         action |-> CHOOSE a \in 1..Len(possible_actions) :
                        possible_actions[a].name = best_action_name]

update_q_value(q, state, action_name, reward, next_state) ==
    LET q1 == IF state \in DOMAIN q THEN q ELSE Put(q, state, <<>>)
        q2 == IF action_name \in QActions(q1[state]) THEN q1
              ELSE Put(q1, state, Append(q1[state], QEntry(action_name, 0)))
        max_next_q == IF next_state \in DOMAIN q2 /\ Len(q2[next_state]) > 0
                      THEN q2[next_state][QMax(q2[next_state])].q ELSE 0
        i == QIndex(q2[state], action_name)
        current_q == q2[state][i].q
        new_q == current_q
                 + ((reward + (discount_factor.n * max_next_q) \div discount_factor.d - current_q)
                    * learning_rate.n) \div learning_rate.d
    IN  Put(q2, state, [q2[state] EXCEPT ![i] = QEntry(action_name, new_q)])

(* a replay that updates the newest transition of the window only *)
ReplayNewestPair(q, h, i) ==
    IF Len(h) < 2 THEN q
    ELSE update_q_value(q, h[Len(h) - 1].state, h[Len(h) - 1].action, h[Len(h) - 1].reward,
                        h[Len(h)].state)

(* the updates over the consecutive pairs i, i + 1 of the window, from i *)
RECURSIVE ReplayFrom(_, _, _)
ReplayFrom(q, h, i) ==
    IF i >= Len(h) THEN q
    ELSE ReplayFrom(update_q_value(q, h[i].state, h[i].action, h[i].reward, h[i + 1].state),
                    h, i + 1)

(* a fuse that, the window being full, drops the entry it has just         *)
(* appended                                                                *)
RLFuseDroppingNewest(q, h, feedbacks, explore, pick, window) ==
    LET current_state == extract_state(feedbacks)
        possible_actions == get_possible_actions(feedbacks)
        chosen == IF explore THEN [q_table |-> q, action |-> pick]
                  ELSE select_action(q, current_state, possible_actions)
        reward == RewardUnits(calculate_reward(feedbacks,
                                               possible_actions[chosen.action].weights))
        h1 == Append(h, [state |-> current_state,
                         action |-> possible_actions[chosen.action].name,
                         reward |-> reward])
        h2 == IF Len(h1) > window THEN SubSeq(h1, 1, Len(h1) - 1) ELSE h1
    IN  [q_table |-> ReplayFrom(chosen.q_table, h2, 1), history |-> h2]

(* RLBasedFusion.fuse on a non-empty list up to the construction of the    *)
(* fused item, which raises: the Q-table and the history it leaves, for a  *)
(* fuser whose history_window is window.  explore says that                *)
(* random.random() fell below the exploration rate, and pick is the index  *)
(* random.choice then draws.                                               *)
RLFuseWindow(q, h, feedbacks, explore, pick, window) ==
    LET current_state == extract_state(feedbacks)
        possible_actions == get_possible_actions(feedbacks)
        chosen == IF explore THEN [q_table |-> q, action |-> pick]
                  ELSE select_action(q, current_state, possible_actions)
        reward == RewardUnits(calculate_reward(feedbacks,
                                               possible_actions[chosen.action].weights))
        h1 == Append(h, [state |-> current_state,
                         action |-> possible_actions[chosen.action].name,
                         reward |-> reward])
        h2 == IF Len(h1) > window THEN Tail(h1) ELSE h1
    IN  [q_table |-> ReplayFrom(chosen.q_table, h2, 1), history |-> h2]

(* the same for the default history_window *)
RLFuse(q, h, feedbacks, explore, pick) ==
    RLFuseWindow(q, h, feedbacks, explore, pick, history_window)

----------------------------------------------------------------------------
(* State after construction: HybridFusionEngine.__init__ with its three    *)
(* strategies (an empty RelationGraph, an empty Q-table, an empty history) *)

NoCall == [op |-> "none"]
NoRet == [kind |-> "none"]          \* nothing returned yet, or None returned
Raised(error) == [kind |-> "raised", error |-> error]

EngineInit ==
    /\ strategy_history = <<>>
    /\ relation_graph = EmptyGraph
    /\ q_table = <<>>
    /\ history = <<>>
    /\ fuse_calls = 0
    /\ strategy_calls = 0

----------------------------------------------------------------------------
(* select_strategy as a function of its arguments: every list of at most   *)
(* MaxItems items over three sources, three kinds, with or without a       *)
(* relation, and every task type.  Lists are taken up to reordering.       *)

SelSources == <<"human.doctor", "human.patient", "system.imaging">>
SelTypes == <<"diagnostic", "therapeutic", "textual">>
SelCodes == 0..17

SelItem(i, c) ==
    FeedbackModel(i, SelSources[(c % 3) + 1], SelTypes[((c \div 3) % 3) + 1], 2, 0, <<>>, TRUE,
                  IF c \div 9 = 1 THEN <<RelationModel(i, 0, "support", One)>> ELSE <<>>)

SelLists ==
    UNION {{[i \in 1..n |-> SelItem(i, f[i])] :
              f \in {g \in [1..n -> SelCodes] : \A i \in 1..(n - 1) : g[i] <= g[i + 1]}} :
           n \in 0..MaxItems}

InitSelect ==
    /\ EngineInit
    /\ ret = NoRet
    /\ \E fs \in SelLists, t \in TaskTypes :
          call = [op |-> "input", feedbacks |-> fs, task_type |-> t]

ApplySelect ==
    /\ call.op = "input"
    /\ call' = [call EXCEPT !.op = "select_strategy"]
    /\ ret' = select_strategy(call.feedbacks, call.task_type)
    /\ UNCHANGED engine

SpecSelect == InitSelect /\ [][ApplySelect]_vars

----------------------------------------------------------------------------
(* The three strategies, each called once on a strategy fresh from its     *)
(* constructor.  Items have the ids 1..n.                                  *)

Reliabilities == 0..2

(* Graph inputs.  A relation an item carries is <<"item", i, t, k>>: item  *)
(* i holds a relation from itself to t (0 is an id outside the list) of    *)
(* kind RelKinds[k].  <<"pair", i, j, ty>> says that the detection of type *)
(* ty scores 1 on the contents of items i < j; every other detection       *)
(* scores 0.                                                               *)
RelKinds == <<[type |-> "support", strength |-> Rat(1, 2)],
              [type |-> "support", strength |-> One],
              [type |-> "oppose", strength |-> Rat(1, 2)],
              [type |-> "oppose", strength |-> One],
              [type |-> "complement", strength |-> One],
              [type |-> "refine", strength |-> One]>>

RelCandidates(n) ==
    {<<"item", i, t, k>> : i \in 1..n, t \in 0..n, k \in 1..Len(RelKinds)}
    \cup {c \in {<<"pair", i, j, ty>> : i \in 1..n, j \in 1..n, ty \in Range(DetectedTypes)} :
             c[2] < c[3]}

RelSeqs(n) == UNION {[1..k -> RelCandidates(n)] : k \in 0..MaxRelations}

ItemRelations(i, rels) ==
    LET own == SelectSeq(rels, LAMBDA c : c[1] = "item" /\ c[2] = i)
    IN  [x \in 1..Len(own) |->
            RelationModel(i, own[x][3], RelKinds[own[x][4]].type, RelKinds[own[x][4]].strength)]

GraphItems(r, rels) ==
    [i \in 1..Len(r) |->
        FeedbackModel(i, "human.doctor", "diagnostic", r[i], 0, <<>>, TRUE, ItemRelations(i, rels))]

Detection(n, rels) ==
    [p \in {c \in (1..n) \X (1..n) \X Range(DetectedTypes) : c[1] < c[2]} |->
        IF <<"pair", p[1], p[2], p[3]>> \in Range(rels) THEN One ELSE Zero]

(* non-decreasing vectors of length n over S *)
Sorted(n, S) == {g \in [1..n -> S] : \A i \in 1..(n - 1) : g[i] <= g[i + 1]}

GraphInput(r, rels) ==
    [op |-> "input", strategy |-> "graph",
     feedbacks |-> GraphItems(r, rels), detected |-> Detection(Len(r), rels)]

AttentionInput(r, column) ==
    [op |-> "input", strategy |-> "attention",
     feedbacks |-> [i \in 1..Len(r) |->
         FeedbackModel(i, "human.doctor", "diagnostic", r[i], 0, <<>>, TRUE, <<>>)],
     column |-> column]

(* RL inputs: reliability, age in days, source and kind of each item *)
RLAges == <<0, 15, 30>>
RLSources == <<"human.doctor", "self.assessment">>
RLTypes == <<"diagnostic", "textual">>
RLCodes == 0..(3 * Len(RLAges) * Len(RLSources) * Len(RLTypes) - 1)

RLItem(i, c) ==
    FeedbackModel(i, RLSources[((c \div 9) % 2) + 1], RLTypes[(c \div 18) + 1],
                  c % 3, RLAges[((c \div 3) % 3) + 1], <<>>, TRUE, <<>>)

RLInput(f) ==
    [op |-> "input", strategy |-> "rl", feedbacks |-> [i \in 1..Len(f) |-> RLItem(i, f[i])]]

InitStrategies ==
    /\ EngineInit
    /\ ret = NoRet
    /\ \E n \in 1..MaxItems :
          \/ \E r \in Sorted(n, Reliabilities), rels \in RelSeqs(n) : call = GraphInput(r, rels)
          \/ \E r \in [1..n -> Reliabilities], column \in [1..n -> 0..MaxAttention] :
                call = AttentionInput(r, column)
          \/ \E f \in Sorted(n, RLCodes) : call = RLInput(f)

GraphFuseCall ==
    /\ call.op = "input"
    /\ call.strategy = "graph"
    /\ LET out == GraphFuse(call.feedbacks, call.detected)
       IN  /\ relation_graph' = out.graph
           /\ ret' = out.item
    /\ call' = [call EXCEPT !.op = "GraphBasedFusion.fuse"]
    /\ UNCHANGED <<strategy_history, q_table, history, fuse_calls, strategy_calls>>

AttentionFuseCall ==
    /\ call.op = "input"
    /\ call.strategy = "attention"
    /\ ret' = AttentionFuse(call.feedbacks, call.column)
    /\ call' = [call EXCEPT !.op = "AttentionBasedFusion.fuse"]
    /\ UNCHANGED engine

PossibleActionsCall ==
    /\ call.op = "input"
    /\ call.strategy = "rl"
    /\ ret' = get_possible_actions(call.feedbacks)
    /\ call' = [call EXCEPT !.op = "RLBasedFusion._get_possible_actions"]
    /\ UNCHANGED engine

NextStrategies == GraphFuseCall \/ AttentionFuseCall \/ PossibleActionsCall

SpecStrategies == InitStrategies /\ [][NextStrategies]_vars

----------------------------------------------------------------------------
(* core/fusion/hybrid_fusion.py: one HybridFusionEngine and its three      *)
(* strategies, called in any order.                                        *)

FusionTag(strategy_name) == "fusion_strategy:" \o strategy_name

(* the record fuse appends to strategy_history, less its timestamp; the    *)
(* key outcome is absent (<<>>) until evaluate_strategy_performance sets it *)
HistoryRecord(strategy_name, feedbacks, task_type) ==
    [strategy |-> strategy_name,
     task_type |-> task_type,
     num_feedbacks |-> Len(feedbacks),
     feedback_types |-> [i \in 1..Len(feedbacks) |-> feedbacks[i].feedback_type],
     feedback_sources |-> [i \in 1..Len(feedbacks) |-> feedbacks[i].source],
     outcome |-> <<>>]

(* fused_feedback.metadata.tags.append(f"fusion_strategy:{strategy_name}") *)
Tagged(fused_feedback, strategy_name) ==
    [fused_feedback EXCEPT !.tags = Append(@, FusionTag(strategy_name))]

(* The items the engine is called on: three that carry no relation and one *)
(* that holds a SUPPORT relation to the first, all of reliability 1.0.     *)
Pool == <<FeedbackModel(1, "human.doctor", "diagnostic", 2, 0, <<>>, TRUE, <<>>),
          FeedbackModel(2, "human.patient", "therapeutic", 2, 0, <<>>, TRUE, <<>>),
          FeedbackModel(3, "human.doctor", "diagnostic", 2, 0, <<>>, TRUE, <<>>),
          FeedbackModel(4, "human.doctor", "diagnostic", 2, 0, <<"reviewed">>, TRUE,
                        <<RelationModel(4, 1, "support", Rat(1, 2))>>)>>

(* the lists the engine is called on: the first n pool items for every n  *)
(* up to MaxItems, and the last MaxItems pool items                        *)
Lists ==
    {SubSeq(Pool, 1, n) : n \in 0..Min(MaxItems, Len(Pool))}
    \cup {SubSeq(Pool, Max(1, Len(Pool) - MaxItems + 1), Len(Pool))}

(* the lists a strategy is called on directly *)
DirectLists == {<<>>, SubSeq(Pool, 1, Min(MaxItems, Len(Pool)))}

Tasks == {NoTask, "long_term_optimization", "diagnostic"}

(* what the detection functions find in the contents of a list: nothing,   *)
(* or that its first two items support each other fully                    *)
Detections(n) ==
    LET none == [p \in {c \in (1..n) \X (1..n) \X Range(DetectedTypes) : c[1] < c[2]} |-> Zero]
    IN  {none} \cup (IF n >= 2 THEN {[none EXCEPT ![<<1, 2, "support">>] = One]} ELSE {})

(* leading columns of the attention output: all zero, all equal, or only   *)
(* the first item non-zero                                                 *)
Columns(n) == {[i \in 1..n |-> 0], [i \in 1..n |-> 1], [i \in 1..n |-> IF i = 1 THEN 1 ELSE 0]}

FuseOps == {"fuse", "GraphBasedFusion.fuse", "AttentionBasedFusion.fuse", "RLBasedFusion.fuse"}

Init ==
    /\ EngineInit
    /\ call = NoCall
    /\ ret = NoRet

(* GraphBasedFusion.fuse *)
GraphFuseDirect ==
    \E feedbacks \in DirectLists :
        /\ call' = [op |-> "GraphBasedFusion.fuse", feedbacks |-> feedbacks]
        /\ IF Len(feedbacks) = 0
           THEN /\ ret' = Raised("ValueError")
                /\ UNCHANGED engine
           ELSE /\ strategy_calls < MaxCalls
                /\ strategy_calls' = strategy_calls + 1
                /\ \E detected \in Detections(Len(feedbacks)) :
                      LET out == GraphFuse(feedbacks, detected)
                      IN  /\ relation_graph' = out.graph
                          /\ ret' = out.item
                /\ UNCHANGED <<strategy_history, q_table, history, fuse_calls>>

(* AttentionBasedFusion.fuse *)
AttentionFuseDirect ==
    \E feedbacks \in DirectLists :
        /\ call' = [op |-> "AttentionBasedFusion.fuse", feedbacks |-> feedbacks]
        /\ IF Len(feedbacks) = 0
           THEN /\ ret' = Raised("ValueError")
                /\ UNCHANGED engine
           ELSE /\ strategy_calls < MaxCalls
                /\ strategy_calls' = strategy_calls + 1
                /\ \E column \in Columns(Len(feedbacks)) : ret' = AttentionFuse(feedbacks, column)
                /\ UNCHANGED <<strategy_history, relation_graph, q_table, history, fuse_calls>>

(* RLBasedFusion.fuse without its empty-list test: 1.0 / n divides by zero *)
(* in _get_possible_actions                                                *)
RLFuseUnchecked ==
    \E feedbacks \in DirectLists :
        /\ call' = [op |-> "RLBasedFusion.fuse", feedbacks |-> feedbacks]
        /\ IF Len(feedbacks) = 0
           THEN /\ ret' = Raised("ZeroDivisionError")
                /\ UNCHANGED engine
           ELSE /\ strategy_calls < MaxCalls
                /\ strategy_calls' = strategy_calls + 1
                /\ \E explore \in BOOLEAN, pick \in 1..Len(ActionNames) :
                      LET out == RLFuse(q_table, history, feedbacks, explore, pick)
                      IN  /\ q_table' = out.q_table
                          /\ history' = out.history
                /\ ret' = Raised("AttributeError")
                /\ UNCHANGED <<strategy_history, relation_graph, fuse_calls>>

(* RLBasedFusion.fuse: once past the empty-list test it updates the        *)
(* history and the Q-table and then raises AttributeError, for SourceType  *)
(* has no member SYSTEM                                                    *)
RLFuseDirect ==
    \E feedbacks \in DirectLists :
        /\ call' = [op |-> "RLBasedFusion.fuse", feedbacks |-> feedbacks]
        /\ IF Len(feedbacks) = 0
           THEN /\ ret' = Raised("ValueError")
                /\ UNCHANGED engine
           ELSE /\ strategy_calls < MaxCalls
                /\ strategy_calls' = strategy_calls + 1
                /\ \E explore \in BOOLEAN, pick \in 1..Len(ActionNames) :
                      LET out == RLFuse(q_table, history, feedbacks, explore, pick)
                      IN  /\ q_table' = out.q_table
                          /\ history' = out.history
                /\ ret' = Raised("AttributeError")
                /\ UNCHANGED <<strategy_history, relation_graph, fuse_calls>>

(* HybridFusionEngine.fuse: the record is appended before the strategy is  *)
(* called, so it stays when the strategy raises                            *)
FuseWithin(limit) ==
    \E feedbacks \in Lists, task_type \in Tasks :
        /\ call' = [op |-> "fuse", feedbacks |-> feedbacks, task_type |-> task_type]
        /\ IF Len(feedbacks) = 0
           THEN /\ ret' = Raised("ValueError")
                /\ UNCHANGED engine
           ELSE LET strategy_name == select_strategy(feedbacks, task_type)
                IN  /\ strategy_calls < limit
                    /\ strategy_calls' = strategy_calls + 1
                    /\ fuse_calls' = fuse_calls + 1
                    /\ strategy_history' =
                          Append(strategy_history, HistoryRecord(strategy_name, feedbacks, task_type))
                    /\ \/ /\ strategy_name = "graph"
                          /\ \E detected \in Detections(Len(feedbacks)) :
                                LET out == GraphFuse(feedbacks, detected)
                                IN  /\ relation_graph' = out.graph
                                    /\ ret' = Tagged(out.item, strategy_name)
                          /\ UNCHANGED <<q_table, history>>
                       \/ /\ strategy_name = "attention"
                          /\ \E column \in Columns(Len(feedbacks)) :
                                ret' = Tagged(AttentionFuse(feedbacks, column), strategy_name)
                          /\ UNCHANGED <<relation_graph, q_table, history>>
                       \/ /\ strategy_name = "rl"
                          /\ \E explore \in BOOLEAN, pick \in 1..Len(ActionNames) :
                                LET out == RLFuse(q_table, history, feedbacks, explore, pick)
                                IN  /\ q_table' = out.q_table
                                    /\ history' = out.history
                          /\ ret' = Raised("AttributeError")
                          /\ UNCHANGED relation_graph

(* HybridFusionEngine.fuse recording after the strategy has returned *)
FuseRecordAfter ==
    \E feedbacks \in Lists, task_type \in Tasks :
        /\ call' = [op |-> "fuse", feedbacks |-> feedbacks, task_type |-> task_type]
        /\ IF Len(feedbacks) = 0
           THEN /\ ret' = Raised("ValueError")
                /\ UNCHANGED engine
           ELSE LET strategy_name == select_strategy(feedbacks, task_type)
                    record == HistoryRecord(strategy_name, feedbacks, task_type)
                IN  /\ strategy_calls < MaxCalls
                    /\ strategy_calls' = strategy_calls + 1
                    /\ fuse_calls' = fuse_calls + 1
                    /\ \/ /\ strategy_name = "graph"
                          /\ \E detected \in Detections(Len(feedbacks)) :
                                LET out == GraphFuse(feedbacks, detected)
                                IN  /\ relation_graph' = out.graph
                                    /\ ret' = Tagged(out.item, strategy_name)
                          /\ strategy_history' = Append(strategy_history, record)
                          /\ UNCHANGED <<q_table, history>>
                       \/ /\ strategy_name = "attention"
                          /\ \E column \in Columns(Len(feedbacks)) :
                                ret' = Tagged(AttentionFuse(feedbacks, column), strategy_name)
                          /\ strategy_history' = Append(strategy_history, record)
                          /\ UNCHANGED <<relation_graph, q_table, history>>
                       \/ /\ strategy_name = "rl"
                          /\ \E explore \in BOOLEAN, pick \in 1..Len(ActionNames) :
                                LET out == RLFuse(q_table, history, feedbacks, explore, pick)
                                IN  /\ q_table' = out.q_table
                                    /\ history' = out.history
                          /\ ret' = Raised("AttributeError")
                          /\ UNCHANGED <<strategy_history, relation_graph>>

Fuse == FuseWithin(MaxCalls)

(* the five values select_strategy reads *)
SelectKey(feedbacks, task_type) ==
    [item_count |-> Len(feedbacks),
     has_relations |-> has_relations(feedbacks),
     source_diversity |-> Cardinality(sources(feedbacks)),
     kind_diversity |-> Cardinality(types(feedbacks)),
     task_type |-> task_type]

(* HybridFusionEngine.select_strategy writing its choice to the log *)
SelectStrategyRecording ==
    \E feedbacks \in Lists, task_type \in Tasks :
        /\ call' = [op |-> "select_strategy", feedbacks |-> feedbacks, task_type |-> task_type]
        /\ ret' = select_strategy(feedbacks, task_type)
        /\ strategy_history' =
              Append(strategy_history, HistoryRecord(ret', feedbacks, task_type))
        /\ UNCHANGED <<relation_graph, q_table, history, fuse_calls, strategy_calls>>

(* HybridFusionEngine.select_strategy *)
SelectStrategy ==
    \E feedbacks \in Lists, task_type \in Tasks :
        /\ call' = [op |-> "select_strategy", feedbacks |-> feedbacks, task_type |-> task_type]
        /\ ret' = select_strategy(feedbacks, task_type)
        /\ UNCHANGED engine

(* HybridFusionEngine.analyze_strategy_performance *)
TaskKey(task_type) == IF task_type = NoTask THEN "unknown" ELSE task_type
StrategiesOf(records) == [i \in 1..Len(records) |-> records[i].strategy]

AnalyzeStrategyPerformance ==
    /\ call' = [op |-> "analyze_strategy_performance"]
    /\ ret' = IF Len(strategy_history) = 0
              THEN [message |-> "No strategy history available"]
              ELSE [strategy_counts |-> Counts(StrategiesOf(strategy_history), Strategies),
                    task_strategy_counts |->
                        Tabulated([k \in {TaskKey(strategy_history[i].task_type) :
                                             i \in 1..Len(strategy_history)} |->
                            Counts(StrategiesOf(SelectSeq(strategy_history,
                                                          LAMBDA r : TaskKey(r.task_type) = k)),
                                   Strategies)]),
                    total_fusions |-> Len(strategy_history)]
    /\ UNCHANGED engine

(* HybridFusionEngine.get_strategy_recommendation: the records of the same *)
(* task type whose item count is within 2 of num_feedbacks, and among      *)
(* their strategies the one max() returns, the first inserted of those of  *)
(* greatest count                                                          *)
similar_records(records, task_type, num_feedbacks) ==
    SelectSeq(records, LAMBDA record :
        record.task_type = task_type /\ Abs(record.num_feedbacks - num_feedbacks) <= 2)

MostUsed(names) ==
    LET count(x) == Cardinality({i \in 1..Len(names) : names[i] = x})
        first(x) == CHOOSE i \in 1..Len(names) :
                        names[i] = x /\ \A j \in 1..(i - 1) : names[j] # x
    IN  CHOOSE x \in Range(names) :
            \A y \in Range(names) \ {x} :
                count(y) < count(x) \/ (count(y) = count(x) /\ first(x) < first(y))

(* get_strategy_recommendation by its rules alone, the log unread *)
get_strategy_recommendation_rules(records, task_type, num_feedbacks, with_relations) ==
    IF with_relations THEN "graph"
    ELSE IF num_feedbacks <= 2 THEN "attention"
    ELSE IF task_type \in {"long_term_optimization", "sequential_decision"} THEN "rl"
    ELSE IF task_type \in {"diagnostic", "therapeutic"} THEN "graph"
    ELSE "attention"

get_strategy_recommendation(records, task_type, num_feedbacks, with_relations) ==
    IF with_relations THEN "graph"
    ELSE IF num_feedbacks <= 2 THEN "attention"
    ELSE IF Len(similar_records(records, task_type, num_feedbacks)) > 0
         THEN MostUsed(StrategiesOf(similar_records(records, task_type, num_feedbacks)))
    ELSE IF task_type \in {"long_term_optimization", "sequential_decision"} THEN "rl"
    ELSE IF task_type \in {"diagnostic", "therapeutic"} THEN "graph"
    ELSE "attention"

(* item counts asked about *)
Sizes == {2, 5}

(* get_strategy_recommendation appending what it recommends to the log *)
GetStrategyRecommendationLogging ==
    \E task_type \in Tasks, num_feedbacks \in Sizes, with_relations \in BOOLEAN :
        /\ call' = [op |-> "get_strategy_recommendation", task_type |-> task_type,
                    num_feedbacks |-> num_feedbacks, has_relations |-> with_relations]
        /\ ret' = get_strategy_recommendation(strategy_history, task_type, num_feedbacks,
                                              with_relations)
        /\ strategy_history' =
              Append(strategy_history,
                     [strategy |-> ret', task_type |-> task_type,
                      num_feedbacks |-> num_feedbacks, feedback_types |-> <<>>,
                      feedback_sources |-> <<>>, outcome |-> <<>>])
        /\ UNCHANGED <<relation_graph, q_table, history, fuse_calls, strategy_calls>>

GetStrategyRecommendation ==
    \E task_type \in Tasks, num_feedbacks \in Sizes, with_relations \in BOOLEAN :
        /\ call' = [op |-> "get_strategy_recommendation", task_type |-> task_type,
                    num_feedbacks |-> num_feedbacks, has_relations |-> with_relations]
        /\ ret' = get_strategy_recommendation(strategy_history, task_type, num_feedbacks,
                                              with_relations)
        /\ UNCHANGED engine

(* HybridFusionEngine.evaluate_strategy_performance, called with the item  *)
(* that the produced_by-th logged fuse call returned (an RL call returns    *)
(* none), or with an item that no fuse produced (produced_by = 0).  Of the  *)
(* item only its tags are read.                                            *)
Outcomes == {1}

ReturnedTags(strategy_name) ==
    <<"fused", strategy_name \o "_fusion", FusionTag(strategy_name)>>

(* the first record with the strategy *)
FirstOf(records, strategy_name) ==
    CHOOSE i \in 1..Len(records) :
        /\ records[i].strategy = strategy_name
        /\ \A j \in 1..(i - 1) : records[j].strategy # strategy_name

LastOf(records, strategy_name) ==
    CHOOSE i \in 1..Len(records) :
        /\ records[i].strategy = strategy_name
        /\ \A j \in (i + 1)..Len(records) : records[j].strategy # strategy_name

EvaluateStrategyPerformance ==
    \E produced_by \in 0..Len(strategy_history), actual_outcome \in Outcomes :
        LET tags == IF produced_by = 0 THEN Pool[4].tags
                    ELSE ReturnedTags(strategy_history[produced_by].strategy)
            marks == {i \in 1..Len(tags) : tags[i] \in {FusionTag(x) : x \in Strategies}}
            first == CHOOSE i \in marks : \A j \in marks : i <= j
            strategy_name == CHOOSE x \in Strategies : FusionTag(x) = tags[first]
        IN  /\ produced_by > 0 => strategy_history[produced_by].strategy # "rl"
            /\ call' = [op |-> "evaluate_strategy_performance", tags |-> tags,
                        produced_by |-> produced_by, actual_outcome |-> actual_outcome]
            /\ ret' = NoRet
            /\ strategy_history' =
                  IF marks = {} \/ Len(strategy_history) = 0 THEN strategy_history
                  ELSE IF strategy_name \notin Range(StrategiesOf(strategy_history))
                       THEN strategy_history
                  ELSE [strategy_history EXCEPT ![LastOf(strategy_history, strategy_name)].outcome
                                                    = <<actual_outcome>>]
            /\ UNCHANGED <<relation_graph, q_table, history, fuse_calls, strategy_calls>>

Next ==
    \/ Fuse
    \/ SelectStrategy
    \/ AnalyzeStrategyPerformance
    \/ EvaluateStrategyPerformance
    \/ GetStrategyRecommendation
    \/ GraphFuseDirect
    \/ AttentionFuseDirect
    \/ RLFuseDirect

Spec == Init /\ [][Next]_vars

----------------------------------------------------------------------------
(* RelationModel construction for every strength on a grid of quarters     *)
(* from below 0 to above 1, and for nan.                                   *)

StrengthInputs == {Rat(n, 4) : n \in (0 - MaxStrength)..MaxStrength} \cup {NaN}

InitRelation ==
    /\ EngineInit
    /\ ret = NoRet
    /\ \E s \in 1..3, t \in 1..3, ty \in RelationType, st \in StrengthInputs :
          call = [op |-> "input", source_id |-> s, target_id |-> t,
                  relation_type |-> ty, strength |-> st]

ApplyRelation ==
    /\ call.op = "input"
    /\ call' = [call EXCEPT !.op = "RelationModel"]
    /\ ret' = RelationModel(call.source_id, call.target_id, call.relation_type, call.strength)
    /\ UNCHANGED engine

SpecRelation == InitRelation /\ [][ApplyRelation]_vars

----------------------------------------------------------------------------
(* What a fuse call does to the items it is handed.  An item is held with  *)
(* its stored metadata.reliability field: <<>> when the field is None,     *)
(* <<v>> when it holds v thousandths.                                      *)

(* source_map.get(self.source, 0.5), in hundredths *)
source_map(source) ==
    IF source \in {"human.doctor", "system.lab"} THEN 90
    ELSE IF source \in {"human.nurse", "system.ehr", "knowledge.literature"} THEN 80
    ELSE IF source = "human.patient" THEN 70
    ELSE IF source \in {"system.imaging", "knowledge.graph"} THEN 85
    ELSE IF source = "self.assessment" THEN 60
    ELSE 50

(* max(0, 1 - time_diff / 365), times the weight 0.2, in thousandths *)
TimeTerm(age) == (200 * Max(0, 365 - age)) \div 365

(* MetadataModel.calculate_reliability with its default weights: the value *)
(* returned and the metadata after the call                                *)
calculate_reliability(metadata) ==
    IF metadata.reliability # <<>>
    THEN [value |-> metadata.reliability[1], metadata |-> metadata]
    ELSE LET reliability == 4 * source_map(metadata.source) + 210 + TimeTerm(metadata.age) + 60
         IN  [value |-> reliability,
              metadata |-> [metadata EXCEPT !.reliability = <<reliability>>]]

(* FeedbackModel.get_reliability: the value and the item after the call *)
get_reliability(feedback) ==
    IF feedback.metadata.reliability = <<>>
    THEN LET out == calculate_reliability(feedback.metadata)
         IN  [value |-> out.value, feedback |-> [feedback EXCEPT !.metadata = out.metadata]]
    ELSE [value |-> feedback.metadata.reliability[1], feedback |-> feedback]

(* every strategy reads get_reliability() of every item it is handed and   *)
(* writes nothing else to an item                                          *)
ReadReliabilities(feedbacks) ==
    [i \in 1..Len(feedbacks) |-> get_reliability(feedbacks[i]).feedback]

StoredSources == {"human.doctor", "human.patient", "custom"}
StoredAges == {0, 73}
StoredReliabilities == {<<>>, <<500>>}

StoredItem(i, source, age, reliability) ==
    [feedback_id |-> i,
     metadata |-> [source |-> source, age |-> age, reliability |-> reliability, tags |-> <<>>],
     text |-> TRUE,
     relations |-> <<>>]

InitInputs ==
    /\ EngineInit
    /\ ret = NoRet
    /\ \E n \in 1..MaxItems :
          \E src \in [1..n -> StoredSources], age \in [1..n -> StoredAges],
             rel \in [1..n -> StoredReliabilities] :
                call = [op |-> "input",
                        feedbacks |-> [i \in 1..n |-> StoredItem(i, src[i], age[i], rel[i])]]

(* a fuse call of the graph or attention strategy, or of the hybrid engine *)
(* that delegates to one of them, seen from the items handed in            *)
FuseInputs ==
    /\ call.op = "input"
    /\ \E op \in FuseOps \ {"RLBasedFusion.fuse"} : call' = [call EXCEPT !.op = op]
    /\ ret' = [feedbacks |-> ReadReliabilities(call.feedbacks), fused_id |-> FusedId]
    /\ UNCHANGED engine

SpecInputs == InitInputs /\ [][FuseInputs]_vars

----------------------------------------------------------------------------
(* The RL strategy on its own: a fresh RLBasedFusion called on a two-item   *)
(* and a three-item list.  call.explore tells whether random.random() fell  *)
(* below exploration_rate in _select_action; under an exploration rate of 0 *)
(* it never does.                                                           *)

(* two items of reliability 0 from different sources, the first of which   *)
(* supports the second: weights that differ earn a negative reward         *)
SupportedPair ==
    <<FeedbackModel(1, "human.doctor", "diagnostic", 0, 0, <<>>, TRUE,
                    <<RelationModel(1, 2, "support", One)>>),
      FeedbackModel(2, "human.patient", "diagnostic", 0, 0, <<>>, TRUE, <<>>)>>

RLLists == {<<>>, SubSeq(Pool, 1, 2), SubSeq(Pool, 1, 3), SupportedPair}

InitRL ==
    /\ EngineInit
    /\ call = NoCall
    /\ ret = NoRet

RLFuseCall ==
    \E feedbacks \in RLLists, explore \in BOOLEAN, pick \in 1..Len(ActionNames) :
        /\ call' = [op |-> "RLBasedFusion.fuse", feedbacks |-> feedbacks,
                    explore |-> explore /\ Len(feedbacks) > 0]
        /\ IF Len(feedbacks) = 0
           THEN /\ ret' = Raised("ValueError")
                /\ UNCHANGED engine
           ELSE /\ strategy_calls < MaxRLCalls
                /\ strategy_calls' = strategy_calls + 1
                /\ LET out == RLFuse(q_table, history, feedbacks, explore, pick)
                   IN  /\ q_table' = out.q_table
                       /\ history' = out.history
                /\ ret' = Raised("AttributeError")
                /\ UNCHANGED <<strategy_history, relation_graph, fuse_calls>>

SpecRL == InitRL /\ [][RLFuseCall]_vars

----------------------------------------------------------------------------
(* The recommendation read from logs of up to MaxLog fuse calls *)

RecTasks == Tasks \cup {"sequential_decision", "therapeutic"}
RecSizes == {2, 5}

LogFuse == FuseWithin(MaxLog)

RecommendCall ==
    \E task_type \in RecTasks, num_feedbacks \in RecSizes, with_relations \in BOOLEAN :
        /\ call' = [op |-> "get_strategy_recommendation", task_type |-> task_type,
                    num_feedbacks |-> num_feedbacks, has_relations |-> with_relations]
        /\ ret' = get_strategy_recommendation(strategy_history, task_type, num_feedbacks,
                                              with_relations)
        /\ UNCHANGED engine

NextRecommend == LogFuse \/ RecommendCall

SpecRecommend == Init /\ [][NextRecommend]_vars

-----------------------------------------------------------------------------
(* A FeedbackModel that is given relations one call at a time and is then  *)
(* fused with a second item by the graph strategy.                         *)

MaxAdds == 2

(* FeedbackModel.add_relation: self.relations.append(relation) *)
item_add_relation(feedback, relation) ==
    [feedback EXCEPT !.relations = Append(feedback.relations, relation)]

(* relations of item 1 to the item it is fused with and to an item that is *)
(* not in the list                                                         *)
AddedRelations ==
    {RelationModel(1, t, ty, One) : t \in {2, 3}, ty \in {"support", "oppose", "refine"}}

InitItem ==
    /\ EngineInit
    /\ call = [op |-> "FeedbackModel", item |-> Pool[1]]
    /\ ret = NoRet

AddRelationCall ==
    /\ call.op \in {"FeedbackModel", "FeedbackModel.add_relation"}
    /\ Len(call.item.relations) < MaxAdds
    /\ \E relation \in AddedRelations :
          call' = [op |-> "FeedbackModel.add_relation",
                   item |-> item_add_relation(call.item, relation)]
    /\ ret' = NoRet
    /\ UNCHANGED engine

GraphFuseItem ==
    /\ call.op \in {"FeedbackModel", "FeedbackModel.add_relation"}
    /\ LET feedbacks == <<call.item, Pool[2]>>
       IN  /\ call' = [op |-> "GraphBasedFusion.fuse", item |-> call.item,
                       feedbacks |-> feedbacks]
           /\ \E detected \in Detections(Len(feedbacks)) :
                 LET out == GraphFuse(feedbacks, detected)
                 IN  /\ relation_graph' = out.graph
                     /\ ret' = out.item
    /\ UNCHANGED <<strategy_history, q_table, history, fuse_calls, strategy_calls>>

NextItem == AddRelationCall \/ GraphFuseItem

SpecItem == InitItem /\ [][NextItem]_vars

-----------------------------------------------------------------------------
(* propagate_information one round at a time, on the graph that            *)
(* build_relation_graph has made of the items.  call.round counts the      *)
(* rounds that are done.                                                   *)

MaxPropagated == 2

InitPropagate ==
    /\ strategy_history = <<>>
    /\ q_table = <<>>
    /\ history = <<>>
    /\ fuse_calls = 0
    /\ strategy_calls = 0
    /\ ret = NoRet
    /\ \E n \in 1..MaxPropagated :
          \E r \in Sorted(n, Reliabilities), rels \in RelSeqs(n) :
              LET input == GraphInput(r, rels)
              IN  /\ relation_graph = build_relation_graph(input.feedbacks, input.detected)
                  /\ call = [op |-> "propagate_information", pc |-> "loop", round |-> 0,
                             feedbacks |-> input.feedbacks,
                             node_states |-> InitialStates(input.feedbacks)]

Returned(value) == [kind |-> "returned", value |-> value]

(* a loop that is left as soon as a round changes no state *)
PropagateRoundConverging ==
    /\ call.pc = "loop"
    /\ call.round < max_iterations
    /\ LET new_states == PropagationRound(relation_graph, call.node_states)
       IN  IF new_states = call.node_states
           THEN /\ call' = [call EXCEPT !.pc = "returned"]
                /\ ret' = Returned(call.node_states)
           ELSE /\ call' = [call EXCEPT !.round = @ + 1, !.node_states = new_states]
                /\ ret' = ret
    /\ UNCHANGED engine

(* one pass of "for _ in range(self.max_iterations)" *)
PropagateRound ==
    /\ call.pc = "loop"
    /\ call.round < max_iterations
    /\ call' = [call EXCEPT !.round = @ + 1,
                            !.node_states = PropagationRound(relation_graph, call.node_states)]
    /\ UNCHANGED <<ret, engine>>

(* return node_states *)
PropagateReturn ==
    /\ call.pc = "loop"
    /\ call.round = max_iterations
    /\ call' = [call EXCEPT !.pc = "returned"]
    /\ ret' = Returned(call.node_states)
    /\ UNCHANGED engine

NextPropagate == PropagateRound \/ PropagateReturn

(* the loop is straight-line code of one thread: it keeps running *)
SpecPropagate == InitPropagate /\ [][NextPropagate]_vars /\ WF_vars(NextPropagate)

-----------------------------------------------------------------------------
(* _fuse_content of the graph and of the attention strategy, on lists of   *)
(* TextContent and StructuredContent items with normalised weights in      *)
(* tenths.  The data of a structured item maps some of the keys to a value *)
(* that names the item.                                                    *)

MaxContents == 3

Keys == {"dose", "route"}

TextContent == [text |-> TRUE, data |-> <<>>]
StructuredContent(data) == [text |-> FALSE, data |-> data]

ContentsOf(i) ==
    {TextContent} \cup {StructuredContent([key \in keys |-> i]) : keys \in SUBSET Keys}

(* weight > 0.1, for a weight in tenths *)
Considered(weight) == weight > 1

(* the first item other than i that is structured and carries the key *)
FirstOther(contents, key, i) ==
    CHOOSE j \in 1..Len(contents) :
        /\ j # i /\ ~contents[j].text /\ key \in DOMAIN contents[j].data
        /\ \A x \in 1..(j - 1) :
              ~(x # i /\ ~contents[x].text /\ key \in DOMAIN contents[x].data)

(* the first item before i that is structured and carries the key *)
FirstEarlier(contents, key, i) ==
    CHOOSE j \in 1..(i - 1) :
        /\ ~contents[j].text /\ key \in DOMAIN contents[j].data
        /\ \A x \in 1..(j - 1) : ~(~contents[x].text /\ key \in DOMAIN contents[x].data)

(* fused_data after the items i..Len(contents) of the loop, for the graph  *)
(* strategy (graph = TRUE) or the attention strategy                       *)
RECURSIVE MergeFrom(_, _, _, _, _)
MergeFrom(contents, weights, fused_data, i, graph) ==
    IF i > Len(contents) THEN fused_data
    ELSE IF contents[i].text \/ ~Considered(weights[i])
         THEN MergeFrom(contents, weights, fused_data, i + 1, graph)
    ELSE LET data == contents[i].data
             written == [key \in DOMAIN fused_data \cup DOMAIN data |->
                 IF key \notin DOMAIN data THEN fused_data[key]
                 ELSE IF key \notin DOMAIN fused_data THEN data[key]
                 ELSE LET other == IF graph THEN FirstOther(contents, key, i)
                                   ELSE FirstEarlier(contents, key, i)
                      IN  IF weights[i] > weights[other] THEN data[key]
                          ELSE fused_data[key]]
         IN  MergeFrom(contents, weights, Tabulated(written), i + 1, graph)

HeaviestFirst(weights) ==
    CHOOSE i \in 1..Len(weights) :
        /\ \A j \in 1..Len(weights) : weights[j] <= weights[i]
        /\ \A j \in 1..(i - 1) : weights[j] < weights[i]

(* what _fuse_content returns: the items whose texts are joined, the       *)
(* content of the heaviest item, or the merged data                        *)
FuseContent(contents, weights, graph) ==
    LET text_feedbacks == {i \in 1..Len(contents) : contents[i].text}
        structured_feedbacks == {i \in 1..Len(contents) : ~contents[i].text}
    IN  IF Cardinality(text_feedbacks) >= Cardinality(structured_feedbacks)
        THEN LET texts == {i \in text_feedbacks : Considered(weights[i])}
             IN  IF texts # {} THEN [kind |-> "TextContent", texts |-> texts]
                 ELSE [kind |-> "content", of |-> HeaviestFirst(weights)]
        ELSE [kind |-> "StructuredContent",
              data |-> MergeFrom(contents, weights, <<>>, 1, graph)]

(* weights in tenths that sum to 1 *)
WeightVectors(n) == {w \in [1..n -> 0..10] : SumSeq(w) = 10}

InitContent ==
    /\ EngineInit
    /\ ret = NoRet
    /\ \E n \in 1..MaxContents :
          \E weights \in WeightVectors(n), graph \in BOOLEAN :
              \E contents \in [1..n -> UNION {ContentsOf(i) : i \in 1..n}] :
                  /\ \A i \in 1..n : contents[i] \in ContentsOf(i)
                  /\ call = [op |-> "input", contents |-> contents, weights |-> weights,
                             strategy |-> IF graph THEN "graph" ELSE "attention"]

FuseContentCall ==
    /\ call.op = "input"
    /\ call' = [call EXCEPT !.op = "_fuse_content"]
    /\ ret' = FuseContent(call.contents, call.weights, call.strategy = "graph")
    /\ UNCHANGED engine

SpecContent == InitContent /\ [][FuseContentCall]_vars

-----------------------------------------------------------------------------
(* RLBasedFusion(exploration_rate=0, history_window=MaxWindow): a window   *)
(* small enough to fill within MaxWindowCalls calls                        *)

MaxWindow == 2
MaxWindowCalls == 4

WindowFuseCall ==
    \E feedbacks \in RLLists :
        /\ call' = [op |-> "RLBasedFusion.fuse", feedbacks |-> feedbacks, explore |-> FALSE]
        /\ IF Len(feedbacks) = 0
           THEN /\ ret' = Raised("ValueError")
                /\ UNCHANGED engine
           ELSE /\ strategy_calls < MaxWindowCalls
                /\ strategy_calls' = strategy_calls + 1
                /\ LET out == RLFuseWindow(q_table, history, feedbacks, FALSE, 1, MaxWindow)
                   IN  /\ q_table' = out.q_table
                       /\ history' = out.history
                /\ ret' = Raised("AttributeError")
                /\ UNCHANGED <<strategy_history, relation_graph, fuse_calls>>

SpecWindow == InitRL /\ [][WindowFuseCall]_vars

----------------------------------------------------------------------------
(* Properties *)

(* The five values the selection is said to depend on *)
ItemCount(fs) == Len(fs)
CarriesRelation(fs) == \E i \in DOMAIN fs : fs[i].relations # <<>>
SourceDiversity(fs) == Cardinality({fs[i].source : i \in DOMAIN fs})
KindDiversity(fs) == Cardinality({fs[i].feedback_type : i \in DOMAIN fs})

Selected == call.op = "select_strategy"

C3_TaskTypeOnTwoItems ==
    (Selected /\ ItemCount(call.feedbacks) = 2 /\ ~CarriesRelation(call.feedbacks)) =>
        /\ call.task_type = "long_term_optimization" => ret = "rl"
        /\ call.task_type = "diagnostic" => ret = "graph"
        /\ call.task_type = "question_answering" => ret = "attention"

Constructed == call.op = "RelationModel"

(* C10: a Relation's strength is in [0,1] after construction whatever was  *)
(* passed: below 0 becomes 0, above 1 becomes 1, inside the range is kept. *)
C10_StrengthClamped ==
    Constructed =>
      LET s == call.strength
          r == ret.strength
      IN  /\ r.d > 0 /\ RatLeq(Zero, r) /\ RatLeq(r, One)
          /\ (s.d > 0 /\ s.n < 0) => r = Zero
          /\ (s.d > 0 /\ s.n > s.d) => r = One
          /\ (s.d > 0 /\ s.n >= 0 /\ s.n <= s.d) => r = s

C10_Witness ==
    /\ Constructed
    /\ call.strength.d > 0
    /\ call.strength.n > call.strength.d
    /\ ret.strength = One

(* A weight vector over one denominator: every weight >= 0, total 1 *)
SumsToOne(ws) ==
    /\ \A i \in 1..Len(ws) : ws[i].d > 0 /\ ws[i].d = ws[1].d /\ ws[i].n >= 0
    /\ SumSeq([i \in 1..Len(ws) |-> ws[i].n]) = ws[1].d

PropagatedStates == propagate_information(relation_graph, call.feedbacks)

NormalisedWeights ==
    LET weights == GraphWeights(call.feedbacks, PropagatedStates)
    IN  Tabulated([i \in 1..Len(call.feedbacks) |-> weights[call.feedbacks[i].feedback_id]])

(* C7: for every non-empty list of items with distinct ids and             *)
(* reliabilities in [0,1], the weight vector of each strategy (graph: the  *)
(* normalised reliability * importance after propagation; RL: each of the  *)
(* five actions; attention: the normalised weights of the fuse in effect)  *)
(* has every weight >= 0 and sums to 1.                                    *)
C7_WeightsSumToOne ==
    /\ call.op = "GraphBasedFusion.fuse" => SumsToOne(NormalisedWeights)
    /\ call.op = "RLBasedFusion._get_possible_actions" =>
          \A a \in 1..Len(ret) : SumsToOne(ret[a].weights)
    /\ call.op = "AttentionBasedFusion.fuse" => SumsToOne(AttentionWeights(call.column))

(* C8: GraphBasedFusion.fuse on n items returns an item with exactly n     *)
(* REFINE relations, the i-th from the fused item's id to the id of the    *)
(* i-th input with that input's normalised weight as strength, and the n   *)
(* strengths sum to 1.                                                     *)
C8_RefinePerInput ==
    call.op = "GraphBasedFusion.fuse" =>
        /\ Len(ret.relations) = Len(call.feedbacks)
        /\ \A i \in 1..Len(call.feedbacks) :
              ret.relations[i] = [relation_id |-> <<ret.feedback_id, call.feedbacks[i].feedback_id, "refine">>,
                                  source_id |-> ret.feedback_id,
                                  target_id |-> call.feedbacks[i].feedback_id,
                                  relation_type |-> "refine",
                                  strength |-> NormalisedWeights[i]]
        /\ SumsToOne([i \in 1..Len(ret.relations) |-> ret.relations[i].strength])

(* two items joined by one SUPPORT relation, fused to two unequal weights *)
C8_Witness ==
    /\ call.op = "GraphBasedFusion.fuse"
    /\ Len(call.feedbacks) = 2
    /\ DOMAIN relation_graph.relations = {<<1, 2, "support">>}
    /\ ret.relations[1].strength # ret.relations[2].strength

(* sum over the inputs of weight[i] * propagated reliability[i], the       *)
(* weights read from the REFINE relations of the result                    *)
RECURSIVE WeightedSum(_, _, _)
WeightedSum(relations, states, i) ==
    IF i = 0 THEN Big(0)
    ELSE BigPlus(BigTimes(relations[i].strength.n, states[relations[i].target_id].reliability),
                 WeightedSum(relations, states, i - 1))

(* C9: the reliability of the item graph fusion returns is the sum over    *)
(* the inputs of weight[i] * propagated reliability[i], and lies in [0,1]  *)
(* when every input reliability does.                                      *)
C9_FusedReliability ==
    call.op = "GraphBasedFusion.fuse" =>
        /\ ret.reliability.num = WeightedSum(ret.relations, PropagatedStates, Len(ret.relations))
        /\ ret.reliability.den = BigTimes(ret.relations[1].strength.d, Unit)
        /\ BigLeq(Big(0), ret.reliability.num)
        /\ BigLeq(ret.reliability.num, ret.reliability.den)

(* propagation has moved a reliability and the fused one is strictly       *)
(* between 0 and 1                                                         *)
C9_Witness ==
    /\ call.op = "GraphBasedFusion.fuse"
    /\ \E i \in 1..Len(call.feedbacks) :
          PropagatedStates[call.feedbacks[i].feedback_id].reliability
              # call.feedbacks[i].reliability * (Unit \div 2)
    /\ ret.reliability.num # Big(0)
    /\ ret.reliability.num # ret.reliability.den

(* The cascade as a function of the five values alone *)
CascadeOf(key) ==
    IF key.item_count <= 2 THEN "attention"
    ELSE IF key.has_relations THEN "graph"
    ELSE IF key.source_diversity >= 3 THEN "graph"
    ELSE IF key.task_type \in {"long_term_optimization", "sequential_decision"} THEN "rl"
    ELSE IF key.task_type \in {"diagnostic", "therapeutic"} THEN "graph"
    ELSE IF key.task_type \in {"information_retrieval", "question_answering"} THEN "attention"
    ELSE IF key.kind_diversity >= 3 THEN "graph"
    ELSE "attention"

(* C2: select_strategy is a pure deterministic function of (item count,    *)
(* has relations, distinct sources, distinct kinds, task type): in every   *)
(* engine state, whatever fuse, evaluate or select calls came before, a    *)
(* call returns the name these five values alone determine, and the call   *)
(* changes neither the selection log nor the RL Q-table or history.        *)
C2_SelectPure ==
    [][call'.op = "select_strategy" =>
          /\ ret' = CascadeOf(SelectKey(call'.feedbacks, call'.task_type))
          /\ UNCHANGED <<strategy_history, q_table, history>>]_vars

(* select_strategy answers rl on an engine that has logged a fuse and      *)
(* whose RL strategy has learnt                                            *)
C2_Witness ==
    /\ call.op = "select_strategy"
    /\ ret = "rl"
    /\ Len(strategy_history) > 0
    /\ Len(history) > 0
    /\ DOMAIN q_table # {}

FusionTagsOf(item) == {x \in Strategies : FusionTag(x) \in Range(item.tags)}

(* C4: for every non-empty list and task type, HybridFusionEngine.fuse     *)
(* delegates to the strategy select_strategy names and returns an item     *)
(* whose tags contain fusion_strategy:<name> for exactly that name, and    *)
(* the record the call appends to the log carries the same name.           *)
C4_FuseDelegates ==
    (call.op = "fuse" /\ Len(call.feedbacks) > 0) =>
        LET name == select_strategy(call.feedbacks, call.task_type)
        IN  /\ strategy_history[Len(strategy_history)].strategy = name
            /\ "feedback_id" \in DOMAIN ret
            /\ FusionTagsOf(ret) = {name}
            /\ name = "graph" => ret.source = "fusion.graph_based"
            /\ name = "attention" => ret.source = "fusion.attention_based"

SameCall(r1, r2) ==
    /\ r1.strategy = r2.strategy
    /\ r1.task_type = r2.task_type
    /\ r1.num_feedbacks = r2.num_feedbacks

C6_EmptyListRejected ==
    [][(call'.op \in FuseOps /\ Len(call'.feedbacks) = 0) =>
          /\ ret' = Raised("ValueError")
          /\ UNCHANGED <<strategy_history, q_table, history>>]_vars

(* the RL strategy rejects the empty list after it has learnt and the      *)
(* engine has logged                                                       *)
C6_Witness ==
    /\ call.op = "RLBasedFusion.fuse"
    /\ Len(call.feedbacks) = 0
    /\ ret = Raised("ValueError")
    /\ Len(history) > 0
    /\ DOMAIN q_table # {}
    /\ Len(strategy_history) > 0

Touches(relation, id) == relation.source_id = id \/ relation.target_id = id

IdsOf(feedbacks) == {feedbacks[i].feedback_id : i \in 1..Len(feedbacks)}

(* C11: re-adding a relation with the (source_id, target_id, type) of one  *)
(* already present overwrites it and does not duplicate it: the graph a    *)
(* fuse built holds one relation per distinct triple, and                  *)
(* get_relations_by_feedback(id) returns each relation touching id exactly *)
(* once.                                                                   *)
C11_OnePerTriple ==
    call.op = "GraphBasedFusion.fuse" =>
        LET g == relation_graph
        IN  /\ \A k \in DOMAIN g.relations :
                  <<g.relations[k].source_id, g.relations[k].target_id,
                    g.relations[k].relation_type>> = k
            /\ \A id \in DOMAIN g.feedback_relations :
                  LET rs == get_relations_by_feedback(g, id)
                  IN  /\ \A a, b \in 1..Len(rs) :
                            a # b => rs[a].relation_id # rs[b].relation_id
                      /\ Range(rs) = {g.relations[k] : k \in
                                        {x \in DOMAIN g.relations : Touches(g.relations[x], id)}}

GraphRan ==
    /\ call.op \in {"fuse", "GraphBasedFusion.fuse"}
    /\ Len(call.feedbacks) > 0
    /\ call.op = "fuse" => select_strategy(call.feedbacks, call.task_type) = "graph"

(* C12: after build_relation_graph(items) every key of the per-feedback    *)
(* index is the id of an item of the current call, also when an item       *)
(* carries a relation to an item outside the call, and every relation of   *)
(* the graph comes from the current call: an item of the call carries it   *)
(* or it was inferred between two items of the call.                       *)
C12_NodesAreInputs ==
    GraphRan =>
        /\ DOMAIN relation_graph.feedback_relations \subseteq IdsOf(call.feedbacks)
        /\ \A k \in DOMAIN relation_graph.relations :
              \/ \E i \in 1..Len(call.feedbacks) :
                    relation_graph.relations[k] \in Range(call.feedbacks[i].relations)
              \/ /\ {k[1], k[2]} \subseteq IdsOf(call.feedbacks)
                 /\ k[3] \in Range(DetectedTypes)

(* C13: fuse never mutates its inputs: after a fuse call on any strategy   *)
(* or on the hybrid engine every input item has the relations, tags,       *)
(* content and stored reliability field it had before the call, also a     *)
(* reliability that was absent before it, and the fused item has a new id. *)
C13_InputsUntouched ==
    (call.op \in FuseOps /\ "fused_id" \in DOMAIN ret) =>
        /\ ret.feedbacks = call.feedbacks
        /\ ret.fused_id \notin IdsOf(call.feedbacks)

(* C14: when the relation graph holds no relation, propagate_information   *)
(* returns for every item exactly its initial state (the item's            *)
(* reliability, importance 1.0), for every number of rounds.               *)
C14_NoRelationNoOp ==
    (call.op = "GraphBasedFusion.fuse" /\ DOMAIN relation_graph.relations = {}) =>
        /\ \A k \in 0..MaxRounds :
              LET states == Rounds(relation_graph, InitialStates(call.feedbacks), k)
              IN  /\ DOMAIN states = IdsOf(call.feedbacks)
                  /\ \A i \in 1..Len(call.feedbacks) :
                        states[call.feedbacks[i].feedback_id] =
                            [reliability |-> call.feedbacks[i].reliability * (Unit \div 2),
                             importance |-> Unit]
        /\ propagate_information(relation_graph, call.feedbacks) = InitialStates(call.feedbacks)

(* a graph fuse of several items of different reliability between which    *)
(* no relation was found                                                   *)
C14_Witness ==
    /\ call.op = "GraphBasedFusion.fuse"
    /\ DOMAIN relation_graph.relations = {}
    /\ Len(call.feedbacks) >= 2
    /\ call.feedbacks[1].reliability # call.feedbacks[2].reliability

LastAction(h) == h[Len(h)].action

(* an RL fuse call that got past the empty-list test and did not explore *)
GreedyStep ==
    /\ strategy_calls' = strategy_calls + 1
    /\ call'.op = "RLBasedFusion.fuse"
    /\ ~call'.explore

(* C15 as stated: with the exploration rate at 0, two consecutive RL fuse  *)
(* calls on inputs that yield the same state string choose the same action. *)
C15_SameStateSameAction ==
    [][(/\ GreedyStep
        /\ call.op = "RLBasedFusion.fuse"
        /\ Len(call.feedbacks) > 0
        /\ ~call.explore
        /\ extract_state(call.feedbacks) = extract_state(call'.feedbacks))
       => LastAction(history') = LastAction(history)]_vars

(* the first action of greatest Q-value in the state's row of the table,   *)
(* the first action of all when the table has no row for the state         *)
Greedy(q, state) ==
    IF state \notin DOMAIN q THEN ActionNames[1]
    ELSE LET row == q[state]
             best == CHOOSE i \in 1..Len(row) :
                        /\ \A j \in 1..Len(row) : row[j].q <= row[i].q
                        /\ \A j \in 1..Len(row) : row[j].q = row[i].q => i <= j
         IN  row[best].action

(* C15, amended: with the exploration rate at 0 the action an RL fuse call *)
(* chooses is a function of the state string and of the Q-table as it is   *)
(* when the call starts: the first action of greatest Q-value in the       *)
(* state's row.  The call then replays its history into the table, so the  *)
(* next call on the same state may choose another action.                  *)
C15_GreedyAction ==
    [][GreedyStep =>
          LastAction(history') = Greedy(q_table, extract_state(call'.feedbacks))]_vars

(* a call that did not explore chose an action other than the first one:   *)
(* the table had learnt it from an exploring call                          *)
C15_Witness ==
    /\ call.op = "RLBasedFusion.fuse"
    /\ Len(call.feedbacks) > 0
    /\ ~call.explore
    /\ LastAction(history) # ActionNames[1]

(* C16: RLBasedFusion.fuse on a non-empty list returns a fused item (it    *)
(* does not raise) carrying one REFINE or DERIVED_FROM relation per input,  *)
(* and HybridFusionEngine.fuse with task type long_term_optimization on    *)
(* items without relations returns an item tagged fusion_strategy:rl.      *)
C16_RLFuseReturns ==
    /\ (call.op = "RLBasedFusion.fuse" /\ Len(call.feedbacks) > 0) =>
          /\ "feedback_id" \in DOMAIN ret
          /\ Len(ret.relations) = Len(call.feedbacks)
          /\ \A i \in 1..Len(call.feedbacks) :
                /\ ret.relations[i].relation_type \in {"refine", "derived_from"}
                /\ ret.relations[i].target_id = call.feedbacks[i].feedback_id
    /\ (/\ call.op = "fuse"
        /\ Len(call.feedbacks) > 0
        /\ call.task_type = "long_term_optimization"
        /\ ~has_relations(call.feedbacks)) =>
          /\ "feedback_id" \in DOMAIN ret
          /\ FusionTag("rl") \in Range(ret.tags)

ReadOps == {"analyze_strategy_performance", "get_strategy_recommendation",
            "evaluate_strategy_performance"}

(* C17 as stated: analyze_strategy_performance, get_strategy_recommendation *)
(* and evaluate_strategy_performance are pure reads of the selection log:   *)
(* after any of them strategy_history has the same records with the same    *)
(* fields, and what a later select_strategy or fuse works from is unchanged. *)
C17_PureReads ==
    [][call'.op \in ReadOps =>
          UNCHANGED <<strategy_history, relation_graph, q_table, history>>]_vars

SameButOutcome(r1, r2) ==
    /\ SameCall(r1, r2)
    /\ r1.feedback_types = r2.feedback_types
    /\ r1.feedback_sources = r2.feedback_sources

(* C17, amended: analyze_strategy_performance and                          *)
(* get_strategy_recommendation leave the selection log as it was;           *)
(* evaluate_strategy_performance keeps the number and order of the records  *)
(* and every field but outcome, which it sets on at most one record; none   *)
(* of the three touches the relation graph, the Q-table or the RL history   *)
(* that a later fuse works from.                                            *)
C17_ReadsButOutcome ==
    [][call'.op \in ReadOps =>
          /\ UNCHANGED <<relation_graph, q_table, history>>
          /\ call'.op # "evaluate_strategy_performance" => UNCHANGED strategy_history
          /\ Len(strategy_history') = Len(strategy_history)
          /\ \A i \in 1..Len(strategy_history) :
                SameButOutcome(strategy_history'[i], strategy_history[i])
          /\ Cardinality({i \in 1..Len(strategy_history) :
                            strategy_history'[i].outcome # strategy_history[i].outcome}) <= 1]_vars

(* a recommendation read from a log on which an outcome has been stored *)
C17_Witness ==
    /\ call.op = "get_strategy_recommendation"
    /\ \E i \in 1..Len(strategy_history) : strategy_history[i].outcome # <<>>

(* an evaluate call handed the item of a logged fuse call *)
EvaluateStep ==
    /\ call'.op = "evaluate_strategy_performance"
    /\ call'.produced_by > 0

(* C18 as stated: evaluate_strategy_performance(fused, outcome), called    *)
(* with an item an earlier fuse call of the engine returned, stores outcome *)
(* on the record of the fuse call that produced the item and on no other,   *)
(* whatever fuse calls happened in between.                                 *)
C18_OutcomeOnProducer ==
    [][EvaluateStep =>
          strategy_history' = [strategy_history EXCEPT ![call'.produced_by].outcome
                                                           = <<call'.actual_outcome>>]]_vars

(* the most recent record of the strategy that the given record names *)
MostRecentLike(records, k) ==
    CHOOSE i \in k..Len(records) :
        /\ records[i].strategy = records[k].strategy
        /\ \A j \in (i + 1)..Len(records) : records[j].strategy # records[k].strategy

(* C18, amended: evaluate_strategy_performance(fused, outcome), called     *)
(* with an item an earlier fuse call returned, stores outcome on the most   *)
(* recent record whose strategy is the one that produced the item, and on   *)
(* no other: the record of the producing call only when no later fuse call  *)
(* used the same strategy.                                                  *)
C18_OutcomeOnMostRecent ==
    [][EvaluateStep =>
          strategy_history' =
              [strategy_history EXCEPT ![MostRecentLike(strategy_history, call'.produced_by)].outcome
                                          = <<call'.actual_outcome>>]]_vars

(* the item of the first of two graph fuse calls was evaluated and the     *)
(* outcome went to the record of the second                                 *)
C18_Witness ==
    /\ call.op = "evaluate_strategy_performance"
    /\ call.produced_by = 1
    /\ Len(strategy_history) = 2
    /\ strategy_history[2].strategy = strategy_history[1].strategy
    /\ strategy_history[1].outcome = <<>>
    /\ strategy_history[2].outcome = <<call.actual_outcome>>

(* the logged calls a recommendation call counts as similar *)
SimilarTo(c) ==
    {i \in 1..Len(strategy_history) :
        /\ strategy_history[i].task_type = c.task_type
        /\ strategy_history[i].num_feedbacks - c.num_feedbacks \in -2..2}

TimesUsed(c, x) == Cardinality({i \in SimilarTo(c) : strategy_history[i].strategy = x})

(* the log of test_get_strategy_recommendation: fuse calls on 3, 2 and 2   *)
(* items with task types diagnostic, diagnostic, long_term_optimization    *)
TestLog ==
    /\ Len(strategy_history) = 3
    /\ <<strategy_history[1].num_feedbacks, strategy_history[1].task_type>> = <<3, "diagnostic">>
    /\ <<strategy_history[2].num_feedbacks, strategy_history[2].task_type>> = <<2, "diagnostic">>
    /\ <<strategy_history[3].num_feedbacks, strategy_history[3].task_type>>
          = <<2, "long_term_optimization">>

(* C19: get_strategy_recommendation(task_type, n, has_relations) returns   *)
(* graph whenever has_relations; otherwise attention when n <= 2;          *)
(* otherwise a strategy most often recorded among the records of the same  *)
(* task type with an item count within 2 of n, if there is such a record;  *)
(* otherwise rl for long_term_optimization or sequential_decision, graph   *)
(* for diagnostic or therapeutic, attention for every other task type.  In *)
(* particular (long_term_optimization, 5, false) yields rl after the log   *)
(* of fuse calls on 3, 2 and 2 items.                                      *)
C19_Recommendation ==
    call.op = "get_strategy_recommendation" =>
        /\ IF call.has_relations THEN ret = "graph"
           ELSE IF call.num_feedbacks <= 2 THEN ret = "attention"
           ELSE IF SimilarTo(call) # {}
                THEN /\ TimesUsed(call, ret) > 0
                     /\ \A y \in Strategies : TimesUsed(call, y) <= TimesUsed(call, ret)
           ELSE IF call.task_type \in {"long_term_optimization", "sequential_decision"}
                THEN ret = "rl"
           ELSE IF call.task_type \in {"diagnostic", "therapeutic"} THEN ret = "graph"
           ELSE ret = "attention"
        /\ (/\ TestLog
            /\ call.task_type = "long_term_optimization"
            /\ call.num_feedbacks = 5
            /\ ~call.has_relations) => ret = "rl"

(* a recommendation taken from the log: of three similar records two name  *)
(* the strategy returned and one names another                             *)
C19_Witness ==
    /\ call.op = "get_strategy_recommendation"
    /\ ~call.has_relations
    /\ call.num_feedbacks > 2
    /\ Cardinality(SimilarTo(call)) = 3
    /\ TimesUsed(call, ret) = 2

(* every weight is 1/n *)
IsUniform(ws) == \A i \in 1..Len(ws) : ws[i].d > 0 /\ ws[i].n * Len(ws) = ws[i].d

(* C20: every weight normalisation guards a zero denominator by falling    *)
(* back to the uniform distribution: when all raw weights of a strategy    *)
(* are 0 (graph: every reliability * importance; RL: every feature value   *)
(* of an action; attention: the leading column of the attention output)    *)
(* each of the n items gets weight 1/n and nothing is divided by zero.     *)
C20_ZeroGuard ==
    /\ (/\ call.op = "GraphBasedFusion.fuse"
        /\ \A id \in DOMAIN PropagatedStates :
              PropagatedStates[id].reliability * PropagatedStates[id].importance = 0)
          => IsUniform(NormalisedWeights)
    /\ call.op = "RLBasedFusion._get_possible_actions" =>
          /\ (\A i \in 1..Len(call.feedbacks) : call.feedbacks[i].reliability = 0)
                => IsUniform(ret[2].weights)
          /\ (\A i \in 1..Len(call.feedbacks) : extract_recency(call.feedbacks[i]) = 0)
                => IsUniform(ret[3].weights)
    /\ (/\ call.op = "AttentionBasedFusion.fuse"
        /\ \A i \in 1..Len(call.column) : call.column[i] = 0)
          => IsUniform(AttentionWeights(call.column))

(* no two entries of a relations list with the same (target, type) *)
NoDuplicateRelation(relations) ==
    \A i, j \in 1..Len(relations) :
        (relations[i].target_id = relations[j].target_id
         /\ relations[i].relation_type = relations[j].relation_type) => i = j

(* C21: after any sequence of add_relation calls on an item, and on every  *)
(* item a fuse call returns, the relations list never holds two entries    *)
(* with the same (target, type).                                           *)
C21_NoDuplicateRelation ==
    /\ call.op = "FeedbackModel.add_relation" => NoDuplicateRelation(call.item.relations)
    /\ call.op = "GraphBasedFusion.fuse" => NoDuplicateRelation(ret.relations)

OtherEnd(relation, id) ==
    IF relation.source_id = id THEN relation.target_id ELSE relation.source_id

(* the relations of the graph that act on item id: those whose other end   *)
(* has a state                                                             *)
Applied(g, states, id) ==
    SelectSeq(get_relations_by_feedback(g, id),
              LAMBDA relation : OtherEnd(relation, id) \in DOMAIN states)

(* the update stated for one relation of strength n/d, free of division:   *)
(* both sides are multiplied by the denominator of the step                *)
StatedUpdate(before, after, other, relation) ==
    LET n == relation.strength.n
        d == relation.strength.d
    IN  /\ relation.relation_type = "support" =>
              /\ after.reliability * (10 * d) =
                    Min(Unit * (10 * d), before.reliability * (10 * d) + n * other.reliability)
              /\ after.importance * (10 * d) =
                    Min(2 * Unit * (10 * d), before.importance * (10 * d) + n * other.importance)
        /\ relation.relation_type = "oppose" =>
              /\ after.reliability * (10 * d) =
                    Max(0, before.reliability * (10 * d) - n * other.reliability)
              /\ after.importance = before.importance
        /\ relation.relation_type = "complement" =>
              /\ after.importance * (20 * d) =
                    Min(2 * Unit * (20 * d), before.importance * (20 * d) + n * Unit)
              /\ after.reliability = before.reliability

InRange(state) ==
    /\ 0 <= state.reliability /\ state.reliability <= Unit
    /\ Unit <= state.importance /\ state.importance <= 2 * Unit

(* C22: in every round a SUPPORT relation adds strength * neighbour        *)
(* reliability * 0.1 to reliability (cap 1.0) and strength * neighbour     *)
(* importance * 0.1 to importance (cap 2.0), an OPPOSE relation subtracts  *)
(* strength * neighbour reliability * 0.1 from reliability (floor 0.0) and *)
(* leaves importance, a COMPLEMENT relation adds strength * 0.05 to        *)
(* importance (cap 2.0) and leaves reliability; with initial reliabilities *)
(* in [0,1] every item has, after every round, reliability in [0,1] and    *)
(* importance in [1,2].                                                    *)
C22_PropagationUpdates ==
    call.op = "GraphBasedFusion.fuse" =>
        \A k \in 0..(max_iterations - 1) :
            LET before == Rounds(relation_graph, InitialStates(call.feedbacks), k)
                after == Rounds(relation_graph, InitialStates(call.feedbacks), k + 1)
            IN  \A id \in DOMAIN before :
                    LET relations == Applied(relation_graph, before, id)
                    IN  /\ InRange(after[id])
                        /\ Len(relations) = 0 => after[id] = before[id]
                        /\ Len(relations) = 1 =>
                              StatedUpdate(before[id], after[id],
                                           before[OtherEnd(relations[1], id)], relations[1])

(* a graph fuse in which an item of reliability 0 has one relation, an     *)
(* OPPOSE to an item of reliability 1.0, and a second item is raised by a  *)
(* SUPPORT relation                                                        *)
C22_Witness ==
    /\ call.op = "GraphBasedFusion.fuse"
    /\ LET before == InitialStates(call.feedbacks)
           after == PropagationRound(relation_graph, before)
       IN  /\ \E id \in DOMAIN before :
                 LET relations == Applied(relation_graph, before, id)
                 IN  /\ Len(relations) = 1
                     /\ relations[1].relation_type = "oppose"
                     /\ before[id].reliability = 0
                     /\ before[OtherEnd(relations[1], id)].reliability = Unit
           /\ \E id \in DOMAIN before :
                 LET relations == Applied(relation_graph, before, id)
                 IN  /\ Len(relations) = 1
                     /\ relations[1].relation_type = "support"
                     /\ after[id].reliability > before[id].reliability

(* the orders in which the items of a list can be visited *)
VisitOrders(ids) ==
    {order \in [1..Cardinality(ids) -> ids] : Range(order) = ids}

(* C23: propagation rounds are synchronous: the state of every item after  *)
(* round r+1 is computed from its own and its neighbours' states after     *)
(* round r only, so the state map propagate_information returns does not   *)
(* depend on the order in which the items are visited within a round.      *)
C23_SynchronousRounds ==
    call.op = "GraphBasedFusion.fuse" =>
        /\ \A k \in 0..(max_iterations - 1) :
              LET before == Rounds(relation_graph, InitialStates(call.feedbacks), k)
                  after == Rounds(relation_graph, InitialStates(call.feedbacks), k + 1)
              IN  \A order \in VisitOrders(IdsOf(call.feedbacks)) :
                      RoundInOrder(relation_graph, before, <<>>, order) = after
        /\ Rounds(relation_graph, InitialStates(call.feedbacks), max_iterations)
              = PropagatedStates

(* a graph fuse of two items or more in which a related pair of items both *)
(* change state in the first round                                         *)
C23_Witness ==
    /\ call.op = "GraphBasedFusion.fuse"
    /\ LET before == InitialStates(call.feedbacks)
           after == PropagationRound(relation_graph, before)
       IN  \E a, b \in DOMAIN before :
               /\ a # b
               /\ after[a] # before[a]
               /\ after[b] # before[b]
               /\ \E x \in DOMAIN relation_graph.relations :
                     /\ Touches(relation_graph.relations[x], a)
                     /\ Touches(relation_graph.relations[x], b)

(* C24: propagate_information terminates after exactly max_iterations      *)
(* rounds (3) on every finite relation graph, with cycles, self-relations  *)
(* and states that have stopped changing: nothing ends it earlier or keeps *)
(* it running longer.                                                      *)
C24_ExactlyMaxIterations ==
    <>(/\ call.pc = "returned"
       /\ call.round = max_iterations
       /\ ret = Returned(Rounds(relation_graph, InitialStates(call.feedbacks),
                                 max_iterations)))

(* a call that has returned on a graph with a self-relation in which no    *)
(* round changed a state                                                   *)
C24_Witness ==
    /\ call.pc = "returned"
    /\ call.round = max_iterations
    /\ \E x \in DOMAIN relation_graph.relations :
          relation_graph.relations[x].source_id = relation_graph.relations[x].target_id
    /\ ret = Returned(InitialStates(call.feedbacks))

(* the items that compete for a key: structured, weight above 0.1,         *)
(* carrying the key                                                        *)
Competing(contents, weights, key) ==
    {i \in 1..Len(contents) :
        ~contents[i].text /\ Considered(weights[i]) /\ key \in DOMAIN contents[i].data}

(* C25: when structured inputs are merged, an item considered later        *)
(* replaces the value written for a key only if its weight is strictly     *)
(* greater than that of the item whose value is held; so for any number of *)
(* competing items the fused value of a key is that of a maximum-weight    *)
(* item carrying it, the first writer's among equal maximum weights.       *)
C25_HeaviestWins ==
    (call.op = "_fuse_content" /\ ret.kind = "StructuredContent") =>
        \A key \in Keys :
            LET competing == Competing(call.contents, call.weights, key)
            IN  /\ key \in DOMAIN ret.data <=> competing # {}
                /\ competing # {} =>
                      /\ ret.data[key] \in competing
                      /\ \A i \in competing :
                            /\ call.weights[i] <= call.weights[ret.data[key]]
                            /\ call.weights[i] = call.weights[ret.data[key]]
                                  => ret.data[key] <= i

(* the Q-value of an action in a state, a pair that was never updated      *)
(* counting as 0.0                                                         *)
QValue(q, state, action) ==
    IF state \in DOMAIN q /\ action \in QActions(q[state])
    THEN q[state][QIndex(q[state], action)].q
    ELSE 0

(* C26: without exploration the RL action selection returns the action of  *)
(* highest Q-value for the current state among all five actions, a pair    *)
(* not yet updated counting as 0.0, in every reachable Q-table: also for a *)
(* state whose table entry was created by a Q update after an exploring    *)
(* call.                                                                   *)
C26_GreedyOverAllActions ==
    [][GreedyStep =>
          LET state == extract_state(call'.feedbacks)
          IN  \A a \in 1..Len(ActionNames) :
                 QValue(q_table, state, ActionNames[a])
                     <= QValue(q_table, state, LastAction(history'))]_vars

(* the last n entries of a sequence, all of them when it has fewer *)
LastEntries(s, n) == SubSeq(s, Max(1, Len(s) - n + 1), Len(s))

(* C27: after every RL fuse call the history holds at most history_window  *)
(* (state, action, reward) triples, those of the most recent calls in call *)
(* order; when the window is full the oldest triple is the one evicted.    *)
C27_SlidingWindow ==
    [][(strategy_calls' = strategy_calls + 1 /\ call'.op = "RLBasedFusion.fuse") =>
          /\ Len(history') <= MaxWindow
          /\ Len(history') > 0
          /\ history'[Len(history')].state = extract_state(call'.feedbacks)
          /\ history' = LastEntries(Append(history, history'[Len(history')]), MaxWindow)]_vars

(* a call on a full window whose oldest triple differs from the others: it *)
(* is gone after the call, and the call's triple is the newest             *)
C27_Witness ==
    /\ strategy_calls > MaxWindow
    /\ call.op = "RLBasedFusion.fuse"
    /\ Len(call.feedbacks) > 0
    /\ Len(history) = MaxWindow
    /\ history[1].state # history[Len(history)].state

(* A Q-table read as a map from the (state, action) pairs it holds to      *)
(* their values                                                            *)
HeldPairs(q) == UNION {{<<s, q[s][i].action>> : i \in 1..Len(q[s])} : s \in DOMAIN q}
Flat(q) == Tabulated([p \in HeldPairs(q) |-> q[p[1]][QIndex(q[p[1]], p[2])].q])

(* max over a' of Q(s', a'): over the pairs held for s', 0.0 without any *)
HeldMax(T, s) ==
    LET values == {T[p] : p \in {x \in DOMAIN T : x[1] = s}}
    IN  IF values = {} THEN 0 ELSE CHOOSE v \in values : \A w \in values : w <= v

(* Q(s,a) <- Q(s,a) + alpha * (r + gamma * max_a' Q(s',a') - Q(s,a)) *)
Learn(T, s, a, r, next) ==
    LET T1 == IF <<s, a>> \in DOMAIN T THEN T ELSE (<<s, a>> :> 0) @@ T
        target == r + (discount_factor.n * HeldMax(T1, next)) \div discount_factor.d
    IN  [T1 EXCEPT ![<<s, a>>] = @ + ((target - @) * learning_rate.n) \div learning_rate.d]

(* the recurrence applied once to each consecutive pair i, i + 1 of the    *)
(* window, in window order                                                 *)
RECURSIVE LearnPairs(_, _, _)
LearnPairs(T, window, i) ==
    IF i + 1 > Len(window) THEN T
    ELSE LearnPairs(Learn(T, window[i].state, window[i].action, window[i].reward,
                          window[i + 1].state),
                    window, i + 1)

(* the table when the updates of a call start: a call that does not        *)
(* explore has given a state without pairs its five actions at 0.0         *)
AtReplay(q, state, explore) ==
    IF explore \/ state \in DOMAIN q THEN Flat(q)
    ELSE [p \in {<<state, ActionNames[a]>> : a \in 1..Len(ActionNames)} |-> 0] @@ Flat(q)

(* C28: an RL fuse call first appends its triple and trims the window,     *)
(* then applies Q(s,a) <- Q(s,a) + alpha*(r + gamma*max_a' Q(s',a') -      *)
(* Q(s,a)) exactly once for every consecutive pair (i, i+1) of the window, *)
(* in window order, s' being the state of entry i+1: a window of m entries *)
(* gives m-1 updates, the newest entry is never the updated one, and a     *)
(* transition that stays in the window is updated again on every call.     *)
C28_ReplayOfWindow ==
    [][(strategy_calls' = strategy_calls + 1 /\ call'.op = "RLBasedFusion.fuse") =>
          LET m == Len(history')
              newest == history'[m]
          IN  /\ history' = LastEntries(Append(history, newest), history_window)
              /\ newest.state = extract_state(call'.feedbacks)
              /\ Flat(q_table') =
                    LearnPairs(AtReplay(q_table, newest.state, call'.explore), history', 1)
              /\ (\A i \in 1..(m - 1) :
                     <<history'[i].state, history'[i].action>> # <<newest.state, newest.action>>)
                 => \/ <<newest.state, newest.action>> \notin HeldPairs(q_table')
                    \/ QValue(q_table', newest.state, newest.action)
                          = QValue(q_table, newest.state, newest.action)]_vars

(* a third call: the transition of the first call, updated by the second   *)
(* call, was updated again, and the pair of the third call is untouched    *)
C28_Witness ==
    /\ call.op = "RLBasedFusion.fuse"
    /\ Len(history) = 3
    /\ <<history[1].state, history[1].action>> # <<history[2].state, history[2].action>>
    /\ <<history[1].state, history[1].action>> # <<history[3].state, history[3].action>>
    /\ <<history[2].state, history[2].action>> # <<history[3].state, history[3].action>>
    /\ history[1].reward > 0
    /\ QValue(q_table, history[1].state, history[1].action)
          > (history[1].reward * learning_rate.n) \div learning_rate.d
    /\ QValue(q_table, history[3].state, history[3].action) = 0

(* C29: every record of strategy_history belongs to a fuse call that       *)
(* returned a fused item: when the delegated strategy's fuse raises, the   *)
(* hybrid fuse call propagates the error and leaves no record of the call  *)
(* in the log.                                                             *)
C29_RecordsOfReturnedCalls ==
    [][/\ (call'.op = "fuse" /\ "feedback_id" \notin DOMAIN ret')
             => strategy_history' = strategy_history
       /\ Len(strategy_history') > Len(strategy_history)
             => (call'.op = "fuse" /\ "feedback_id" \in DOMAIN ret')]_vars

(* C30: on an RLBasedFusion created with an empty Q-table and exploration  *)
(* rate 0 (learning rate in [0,1], discount >= 0, reliabilities >= 0)      *)
(* every fuse call of any sequence selects the action uniform: the Q-value *)
(* of uniform stays >= 0, those of the four other actions stay 0 and ties  *)
(* resolve to uniform, so the other actions are never tried.               *)
C30_AlwaysUniform ==
    /\ \A i \in 1..Len(history) : history[i].action = "uniform"
    /\ \A state \in DOMAIN q_table :
          /\ QValue(q_table, state, "uniform") >= 0
          /\ \A a \in 2..Len(ActionNames) : QValue(q_table, state, ActionNames[a]) = 0
    /\ (call.op = "RLBasedFusion.fuse" /\ Len(call.feedbacks) > 0) =>
          /\ ~call.explore
          /\ LastAction(history) = "uniform"
          /\ history[Len(history)].reward >= 0

(* a call on a state in which uniform has earned a positive Q-value, after *)
(* calls on other states, one of them of reward 0                          *)
C30_Witness ==
    /\ call.op = "RLBasedFusion.fuse"
    /\ Len(call.feedbacks) > 0
    /\ strategy_calls >= 3
    /\ QValue(q_table, extract_state(call.feedbacks), "uniform") > 0
    /\ \E state \in DOMAIN q_table : QValue(q_table, state, "uniform") = 0
    /\ LastAction(history) = "uniform"

====
